---- MODULE Spec2Model ----
(***************************************************************************)
(* Model of the multi-transport MCP tool client (mcp_clients/*.py) and of  *)
(* the agent loop of the Streamlit front end (mcp-client/app.py).          *)
(*                                                                         *)
(* Every client method is an operator from the object's fields (and the    *)
(* state of the network it talks to) to the fields after the call plus the *)
(* call's outcome: "ok" (returned), "raise" (an exception left the method) *)
(* or "blocked" (the method never returns).  An action applies one method  *)
(* to the object of the behaviour and records the call in a *Last record.  *)
(***************************************************************************)
EXTENDS Integers, Sequences, FiniteSets, TLC

VARIABLES
    kind,       \* which object the behaviour drives: "ws", "sse", "http", "app"
    readCall,   \* the last call made if it was a read_file: what it looked up and did
    ws,         \* MCPWebSocketClient fields
    wsNet,      \* sockets opened by ws, messages sent, pending inbound messages
    wsSrv,      \* what the server at the other end of the socket does
    wsLast,     \* the last call made on ws
    sse,        \* MCPSSEClient fields
    sseNet,     \* sessions entered by sse, sessions still live
    sseLast,    \* the last call made on sse
    http,       \* MCPHttpClient fields
    httpSrv,    \* what the HTTP server answers on each endpoint
    httpLast,   \* the last call made on http
    mcp_client,         \* st.session_state.mcp_client: the client slot of the UI
    mcp_client_key,     \* st.session_state.mcp_client_key
    mcp_connected,      \* st.session_state.mcp_connected
    mcp_server_url,     \* st.session_state.mcp_server_url
    available_tools,    \* st.session_state.available_tools
    agent_history,      \* st.session_state.agent_history
    generated_content,  \* st.session_state.generated_content
    appNet,             \* sessions entered by the UI's clients, sessions still live
    appSrv,             \* what the server behind each endpoint does
    appLlm,             \* what the completion service answers to the two prompts
    planCall,           \* a call of plan_tool_with_llm: its inputs and what it returned
    argsCall,           \* a call of prepare_tool_arguments: inputs and what it returned
    composeCall,        \* a call of compose_final_response: inputs and what it returned
    normCall,           \* a call of normalize_tool_result: its input and what it returned
    run                 \* the agent run in progress: its position and locals

wsVars   == <<ws, wsNet, wsSrv, wsLast>>
sseVars  == <<sse, sseNet, sseLast>>
httpVars == <<http, httpSrv, httpLast>>
appVars  == <<mcp_client, mcp_client_key, mcp_connected, mcp_server_url,
              available_tools, agent_history, generated_content, appNet, appSrv,
              appLlm, planCall, argsCall, composeCall, normCall, run>>
vars == <<kind, readCall, wsVars, sseVars, httpVars, appVars>>

(***************************************************************************)
(* Bounds of the model.                                                    *)
(***************************************************************************)
MaxInbound == 2     \* notifications / foreign-id messages ahead of a response
MaxPages   == 2     \* pages of a paginated tools/list answer
MaxTools   == 2     \* tool descriptors in one server answer
MaxOpens   == 2     \* sockets / sessions one client object opens in a behaviour
MaxRuns    == 2     \* agent runs started in a behaviour
MaxInserts == 12    \* completed runs whose entries go into the history
MaxItems   == 2     \* items of the content list of a tool result

BoundedSeq(S, n) == UNION {[1..k -> S] : k \in 0..n}

RECURSIVE SeqConcat(_)
SeqConcat(ss) == IF ss = <<>> THEN <<>> ELSE Head(ss) \o SeqConcat(Tail(ss))

(***************************************************************************)
(* Tool descriptors.  A descriptor is the dict the server returns; the     *)
(* model keeps its name ("" when the dict has no truthy "name") and which  *)
(* inputSchema it carries ("NONE" when the key is absent).                 *)
(***************************************************************************)
DefaultSchema == "EMPTY"   \* {"type": "object", "properties": {}, "required": []}

ToolPool ==
    { [name |-> "read_file_mcp", schema |-> "NONE"],
      [name |-> "read_file_mcp", schema |-> "PATHDEF"],
      [name |-> "tool_x",        schema |-> "FORMAT"],
      [name |-> "",              schema |-> "NONE"] }

ToolLists == BoundedSeq(ToolPool, MaxTools)

\* dict.setdefault("inputSchema", {...}): only an absent key is filled
SetDefaultSchema(tool) ==
    IF tool.schema = "NONE" THEN [tool EXCEPT !.schema = DefaultSchema] ELSE tool

\* tools_map[name] = merged over a list: a dict keeps the position of the first
\* insertion of a key and the value of the last one; nameless entries are skipped
RECURSIVE MergeByName(_, _)
MergeByName(acc, tools) ==
    IF tools = <<>> THEN acc
    ELSE LET t == Head(tools)
             m == SetDefaultSchema(t)
             hit == {i \in 1..Len(acc) : acc[i].name = t.name}
         IN IF t.name = "" THEN MergeByName(acc, Tail(tools))
            ELSE IF hit = {} THEN MergeByName(Append(acc, m), Tail(tools))
            ELSE MergeByName([i \in 1..Len(acc) |-> IF i \in hit THEN m ELSE acc[i]],
                             Tail(tools))

(***************************************************************************)
(* read_file of the three clients: the candidate names it looks up in the  *)
(* cached catalog, in order, and the record kept of one call.              *)
(***************************************************************************)
NoCandidate == ""

\* Catalogs that name two of the candidates, not in the order of the lookup
ReadCatalogs ==
    { <<[name |-> "read_file_mcp", schema |-> "NONE"],
        [name |-> "readfile", schema |-> "NONE"]>>,
      <<[name |-> "readfile", schema |-> "NONE"],
        [name |-> "read_file", schema |-> "NONE"]>> }

\* (mutant) the candidates looked up in another order
ReadCandidatesMcpFirst == <<"read_file_mcp", "read_file", "readfile">>

ReadCandidates == <<"read_file", "readfile", "read_file_mcp">>

\* for candidate in (...): if candidate in self.tools_cache, from candidate i on
RECURSIVE FirstCached(_, _)
FirstCached(tools_cache, i) ==
    IF i > Len(ReadCandidates) THEN NoCandidate
    ELSE IF \E j \in 1..Len(tools_cache) : tools_cache[j].name = ReadCandidates[i]
         THEN ReadCandidates[i]
         ELSE FirstCached(tools_cache, i + 1)

\* cached: the names in the cache when read_file was called; candidate: the
\* name call_tool was called with; calls: how many times it was called
NoRead == [op |-> "none", cached |-> {}, candidate |-> NoCandidate, calls |-> 0,
           out |-> "ok", content |-> <<>>]

Read(tools_cache, candidate, calls, out, content) ==
    [op |-> "read_file", cached |-> {tools_cache[j].name : j \in 1..Len(tools_cache)},
     candidate |-> candidate, calls |-> calls, out |-> out, content |-> content]

(***************************************************************************)
(* Socket-RPC client: mcp_clients/websocket_client.py                      *)
(***************************************************************************)
\* A JSON-RPC result object: absent keys read as get()'s default ("{}" for the
\* two handshake fields, the empty list for tools, 0 for a falsy nextCursor).
EmptyResult == [serverInfo |-> "{}", capabilities |-> "{}", tools |-> <<>>, nextCursor |-> 0]

InitResults == { [EmptyResult EXCEPT !.serverInfo = "srv-1", !.capabilities = "caps-1"],
                 EmptyResult }

PagePool  == {t \in ToolPool : t.schema # "PATHDEF"}
PageLists == BoundedSeq(PagePool, 1)
PageSeqs  == BoundedSeq(PageLists, MaxPages) \ {<<>>}
PreSeqs   == BoundedSeq({"notif", "other"}, MaxInbound)
Fins      == {"ok", "err", "none"}

\* What the server at the other end of the socket does, the same way during a
\* behaviour: whether it accepts the socket, what it sends ahead of the response
\* of a request (notifications, messages with a foreign id), how it ends (a
\* response, an error response, nothing), its handshake result and the pages of
\* its tool list.  A server that refuses the socket is one server, whatever it
\* would have sent.
Refusing == [accept |-> FALSE, pre |-> <<>>, fin |-> "none", init |-> EmptyResult,
             pages |-> << <<>> >>]
WsServers == {Refusing}
             \cup [accept : {TRUE}, pre : PreSeqs, fin : Fins, init : InitResults,
                   pages : {<< <<>> >>}]
             \cup [accept : {TRUE}, pre : PreSeqs, fin : Fins,
                   init : {CHOOSE r \in InitResults : r # EmptyResult},
                   pages : PageSeqs]

\* The result the server computes for a request
ServerResult(srv, req) ==
    IF req.method = "initialize" THEN srv.init
    ELSE IF req.method = "tools/list"
         THEN LET k == IF req.cursor = 0 THEN 1 ELSE req.cursor
              IN IF k \in 1..Len(srv.pages)
                 THEN [EmptyResult EXCEPT !.tools = srv.pages[k],
                                          !.nextCursor = IF k < Len(srv.pages) THEN k + 1 ELSE 0]
                 ELSE EmptyResult
         ELSE EmptyResult

\* The inbound messages the server produces for a request, in arrival order
ServerAnswer(srv, req) ==
    [i \in 1..Len(srv.pre) |->
        IF srv.pre[i] = "notif"
        THEN [hasId |-> FALSE, id |-> 0, hasError |-> FALSE, error |-> "", result |-> EmptyResult]
        ELSE [hasId |-> TRUE, id |-> req.id - 1, hasError |-> FALSE, error |-> "",
              result |-> EmptyResult]]
    \o (IF srv.fin = "none" THEN <<>>
        ELSE << [hasId |-> TRUE, id |-> req.id, hasError |-> srv.fin = "err",
                 error |-> IF srv.fin = "err" THEN "rpc-error" ELSE "",
                 result |-> ServerResult(srv, req)] >>)

WsNew == [sock |-> "none", request_id |-> 0, connected |-> FALSE,
          server_info |-> "{}", capabilities |-> "{}", tools_cache |-> <<>>]

WsNetNew == [opened |-> 0, open |-> 0, sent |-> <<>>, inbox |-> <<>>]

WsOut(c, n, out, err, val) == [c |-> c, n |-> n, out |-> out, err |-> err, val |-> val]

\* the while-True read loop of _send_rpc_request: recv() blocks on an empty inbox
RECURSIVE WsReadLoop(_, _)
WsReadLoop(inbox, request_id) ==
    IF inbox = <<>> THEN [out |-> "blocked", err |-> "", val |-> EmptyResult, rest |-> <<>>]
    ELSE LET data == Head(inbox) IN
         IF ~data.hasId THEN WsReadLoop(Tail(inbox), request_id)
         ELSE IF data.id # request_id THEN WsReadLoop(Tail(inbox), request_id)
         ELSE IF data.hasError
              THEN [out |-> "raise", err |-> data.error, val |-> EmptyResult, rest |-> Tail(inbox)]
              ELSE [out |-> "ok", err |-> "", val |-> data.result, rest |-> Tail(inbox)]

\* (mutant) a request that takes its id before it checks the connection
WsSendRpcRequestCountsFirst(c, n, srv, method, cursor) ==
    IF ~c.connected \/ c.sock = "none"
    THEN WsOut([c EXCEPT !.request_id = @ + 1], n, "raise", "not connected", EmptyResult)
    ELSE LET request_id == c.request_id + 1
             message == [id |-> request_id, method |-> method, cursor |-> cursor]
             c1 == [c EXCEPT !.request_id = request_id]
             r  == WsReadLoop(n.inbox \o ServerAnswer(srv, message), request_id)
             n1 == [n EXCEPT !.sent = Append(@, message), !.inbox = r.rest]
         IN WsOut(c1, n1, r.out, r.err, r.val)

WsSendRpcRequest(c, n, srv, method, cursor) ==
    IF ~c.connected \/ c.sock = "none"
    THEN WsOut(c, n, "raise", "not connected", EmptyResult)
    ELSE LET request_id == c.request_id + 1
             message == [id |-> request_id, method |-> method, cursor |-> cursor]
             c1 == [c EXCEPT !.request_id = request_id]
             r  == WsReadLoop(n.inbox \o ServerAnswer(srv, message), request_id)
             n1 == [n EXCEPT !.sent = Append(@, message), !.inbox = r.rest]
         IN WsOut(c1, n1, r.out, r.err, r.val)

WsConnect(c, n, srv) ==
    IF c.connected THEN WsOut(c, n, "ok", "", EmptyResult)
    ELSE IF ~srv.accept THEN WsOut(c, n, "raise", "open failed", EmptyResult)
    ELSE LET c1 == [c EXCEPT !.sock = "open"]
             n1 == [n EXCEPT !.opened = @ + 1, !.open = @ + 1]
             r  == WsSendRpcRequest(c1, n1, srv, "initialize", 0)
         IN IF r.out # "ok" THEN r
            ELSE WsOut([r.c EXCEPT !.server_info = r.val.serverInfo,
                                   !.capabilities = r.val.capabilities,
                                   !.connected = TRUE],
                       r.n, "ok", "", r.val)

\* _ws.close() may raise ConnectionClosed, which close() swallows
WsClose(c, n) ==
    LET c1 == IF c.sock # "none" THEN [c EXCEPT !.sock = "none"] ELSE c
        n1 == IF c.sock # "none" THEN [n EXCEPT !.open = @ - 1] ELSE n
    IN WsOut([c1 EXCEPT !.connected = FALSE], n1, "ok", "", EmptyResult)

RECURSIVE WsDiscoverViaRpc(_, _, _, _, _, _)
WsDiscoverViaRpc(c, n, srv, tools, cursor, fuel) ==
    IF fuel = 0 THEN WsOut(c, n, "blocked", "", EmptyResult)
    ELSE LET r == WsSendRpcRequest(c, n, srv, "tools/list", cursor) IN
         IF r.out # "ok" THEN r
         ELSE LET tools1 == tools \o r.val.tools IN
              IF r.val.nextCursor = 0
              THEN WsOut(r.c, r.n, "ok", "", [EmptyResult EXCEPT !.tools = tools1])
              ELSE WsDiscoverViaRpc(r.c, r.n, srv, tools1, r.val.nextCursor, fuel - 1)

WsDiscoverTools(c, n, srv) ==
    LET k == WsConnect(c, n, srv) IN
    IF k.out # "ok" THEN k
    ELSE LET d == WsDiscoverViaRpc(k.c, k.n, srv, <<>>, 0, MaxPages + 2) IN
         IF d.out # "ok" THEN d
         ELSE LET tools_map == MergeByName(<<>>, d.val.tools)
              IN WsOut([d.c EXCEPT !.tools_cache = tools_map], d.n, "ok", "",
                       [EmptyResult EXCEPT !.tools = tools_map])

WsLastNew == [op |-> "new", prev |-> "new", out |-> "ok", err |-> "",
              val |-> EmptyResult, was |-> FALSE, nsent |-> 0]

WsRecordRead(op, r, read) ==
    /\ readCall' = read
    /\ ws' = r.c
    /\ wsNet' = r.n
    /\ wsLast' = [op |-> op, prev |-> wsLast.op, out |-> r.out, err |-> r.err,
                  val |-> r.val, was |-> ws.connected,
                  nsent |-> Len(wsNet.sent)]
    /\ UNCHANGED <<kind, wsSrv, sseVars, httpVars, appVars>>

WsRecord(op, r) == WsRecordRead(op, r, NoRead)

WsCanCall == kind = "ws" /\ wsLast.out # "blocked"
WsCanOpen == WsCanCall /\ wsNet.opened < MaxOpens

WsConnectCall == WsCanOpen /\ WsRecord("connect", WsConnect(ws, wsNet, wsSrv))

WsCloseCall == WsCanCall /\ WsRecord("close", WsClose(ws, wsNet))

WsDiscoverCall == WsCanOpen /\ WsRecord("discover_tools", WsDiscoverTools(ws, wsNet, wsSrv))

(***************************************************************************)
(* Result normalizer: mcp_clients/utils.py                                 *)
(*                                                                         *)
(* A Python str is a sequence of one-character strings.  A JSON value is a *)
(* record tagged by its type: null, str, num, list, or dict; a dict keeps  *)
(* its "content" and "message" entries ([t |-> "absent"] for a missing     *)
(* key), and an item of a content list keeps its "type" and "text".        *)
(***************************************************************************)
JAbsent   == [t |-> "absent"]
JNull     == [t |-> "null"]
JStr(s)   == [t |-> "str", s |-> s]
JNum(n)   == [t |-> "num", n |-> n]
JList(xs) == [t |-> "list", items |-> xs]
JDict(content, message) == [t |-> "dict", content |-> content, message |-> message]
JFrag(type, text) == [t |-> "dict", type |-> type, text |-> text,
                      content |-> JAbsent, message |-> JAbsent]

Digit(n) == CASE n = 0 -> "0" [] n = 1 -> "1" [] n = 2 -> "2" [] n = 3 -> "3"
              [] n = 4 -> "4" [] n = 5 -> "5" [] n = 6 -> "6" [] n = 7 -> "7"
              [] n = 8 -> "8" [] OTHER -> "9"

\* str(v): a str is itself, a one-digit number its digit, None is "None";
\* containers print as their repr, kept as one token
PyStr(v) ==
    CASE v.t = "str"  -> v.s
      [] v.t = "num"  -> <<Digit(v.n)>>
      [] v.t = "null" -> <<"N", "o", "n", "e">>
      [] v.t = "list" -> <<"<list-repr>">>
      [] OTHER        -> <<"<dict-repr>">>

\* Python truthiness
Truthy(v) ==
    CASE v.t = "str"  -> v.s # <<>>
      [] v.t = "num"  -> v.n # 0
      [] v.t = "list" -> v.items # <<>>
      [] v.t = "dict" -> TRUE
      [] OTHER        -> FALSE

IsSpace(ch) == ch \in {" ", "\n"}

RECURSIVE LStrip(_)
LStrip(s) == IF s # <<>> /\ IsSpace(Head(s)) THEN LStrip(Tail(s)) ELSE s

RECURSIVE RStrip(_)
RStrip(s) == IF s # <<>> /\ IsSpace(s[Len(s)]) THEN RStrip(SubSeq(s, 1, Len(s) - 1)) ELSE s

Strip(s) == RStrip(LStrip(s))

\* "\n".join(parts)
RECURSIVE JoinLines(_)
JoinLines(parts) ==
    IF parts = <<>> THEN <<>>
    ELSE IF Len(parts) = 1 THEN parts[1]
    ELSE parts[1] \o <<"\n">> \o JoinLines(Tail(parts))

SeqMap(f(_), xs) == [i \in 1..Len(xs) |-> f(xs[i])]

Range(xs) == {xs[i] : i \in 1..Len(xs)}

\* [item.get("text", "") for item in content if isinstance(item, dict) and item.get("type") == "text"]
FragmentTexts(content) ==
    LET texts == SelectSeq(content.items,
                           LAMBDA item : item.t = "dict" /\ item.type = JStr(<<"t", "e", "x", "t">>))
    IN SeqMap(LAMBDA item : IF item.text = JAbsent THEN JStr(<<>>) ELSE item.text, texts)

NormOut(out, content, raw) == [out |-> out, content |-> content, raw |-> raw]

normalize_tool_result(result) ==
    IF result.t = "null" THEN NormOut("ok", <<>>, result)
    ELSE IF result.t = "dict" THEN
        LET content   == result.content
            fragments == IF content.t = "list" THEN FragmentTexts(content) ELSE <<>>
            kept      == SelectSeq(fragments, Truthy)
        IN IF content.t = "list" /\ fragments # <<>>
           THEN IF \E i \in 1..Len(kept) : kept[i].t # "str"
                THEN NormOut("raise", <<"A", "t", "t", "r", "E", "r", "r">>, result)  \* .strip() of a non-str
                ELSE NormOut("ok", JoinLines(SeqMap(LAMBDA f : Strip(f.s), kept)), result)
           ELSE IF content.t = "str" THEN NormOut("ok", content.s, result)
           ELSE IF result.message # JAbsent THEN NormOut("ok", PyStr(result.message), result)
           ELSE NormOut("ok", <<"<json-indent-2>">>, result)
    ELSE IF result.t = "list" THEN NormOut("ok", JoinLines(SeqMap(PyStr, result.items)), result)
    ELSE NormOut("ok", PyStr(result), result)

TextType == JStr(<<"t", "e", "x", "t">>)

\* Payloads a tool invocation may answer with
P_null    == JNull
P_text    == JDict(JList(<<JFrag(TextType, JStr(<<" ", "h", "i", " ">>))>>), JAbsent)
P_two     == JDict(JList(<<JFrag(TextType, JStr(<<"a">>)), JFrag(TextType, JStr(<<>>)),
                           JFrag(TextType, JStr(<<"b">>))>>), JAbsent)
P_str     == JDict(JStr(<<"r", "a", "w">>), JStr(<<"m">>))
P_msg     == JDict(JAbsent, JStr(<<"x">>))
P_image   == JDict(JList(<<JFrag(JStr(<<"i", "m", "g">>), JAbsent)>>), JStr(<<"m">>))
P_other   == JDict(JAbsent, JAbsent)
P_list    == JList(<<JNum(1), JNum(2), JNum(3)>>)
P_num     == JNum(7)
P_numfrag == JDict(JList(<<JFrag(TextType, JNum(5))>>), JAbsent)

Payloads == {P_null, P_text, P_two, P_str, P_msg, P_image, P_other, P_list, P_num, P_numfrag}

(***************************************************************************)
(* Streaming client: mcp_clients/sse_client.py                             *)
(***************************************************************************)
ToolNames == {t.name : t \in ToolPool} \ {""}

\* What the server behind the stream endpoint does during one call: whether the
\* session can be entered, whether list_tools / call_tool answer, and with what.
SseConnectServers  == [up : BOOLEAN, listOk : {FALSE}, tools : {<<>>},
                       callOk : {FALSE}, data : {JNull}]
SseDiscoverServers == [up : {TRUE}, listOk : {TRUE}, tools : ToolLists \cup ReadCatalogs,
                       callOk : {FALSE}, data : {JNull}]
                      \cup [up : BOOLEAN, listOk : {FALSE}, tools : {<<>>},
                            callOk : {FALSE}, data : {JNull}]
SseCallServers     == [up : {TRUE}, listOk : {FALSE}, tools : {<<>>},
                       callOk : {TRUE}, data : Payloads]
                      \cup [up : BOOLEAN, listOk : {FALSE}, tools : {<<>>},
                            callOk : {FALSE}, data : {JNull}]
SseNoServer == [up |-> FALSE, listOk |-> FALSE, tools |-> <<>>, callOk |-> FALSE,
                data |-> JNull]

SseNew == [connected |-> FALSE, client_ctx |-> FALSE, client |-> FALSE,
           tools_cache |-> <<>>, loop_running |-> TRUE]

\* opened: sessions entered so far; live: sessions entered and not yet left;
\* peak: the largest number of sessions that were live at the same time
SseNetNew == [opened |-> 0, live |-> 0, peak |-> 0]

\* __aenter__ of the session scope succeeded
SseEntered(n) ==
    [n EXCEPT !.opened = @ + 1, !.live = @ + 1,
              !.peak = IF n.live + 1 > @ THEN n.live + 1 ELSE @]

NoNorm == NormOut("ok", <<>>, JNull)

SseOut(c, n, out, err, tools, norm) ==
    [c |-> c, n |-> n, out |-> out, err |-> err, tools |-> tools, norm |-> norm]

\* (mutant) connect() without the early return of an already connected client
SseConnectNoGuard(c, n, srv) ==
    LET c1 == [c EXCEPT !.client_ctx = TRUE] IN
    IF ~srv.up THEN SseOut(c1, n, "raise", "connect failed", <<>>, NoNorm)
    ELSE SseOut([c1 EXCEPT !.client = TRUE, !.connected = TRUE],
                SseEntered(n), "ok", "", <<>>, NoNorm)

\* connect() with _async_connect(): the context object is stored before it is
\* entered, so a failed __aenter__ leaves it behind
SseConnect(c, n, srv) ==
    IF c.connected THEN SseOut(c, n, "ok", "", <<>>, NoNorm)
    ELSE LET c1 == [c EXCEPT !.client_ctx = TRUE] IN
         IF ~srv.up THEN SseOut(c1, n, "raise", "connect failed", <<>>, NoNorm)
         ELSE SseOut([c1 EXCEPT !.client = TRUE, !.connected = TRUE],
                     SseEntered(n), "ok", "", <<>>, NoNorm)

\* (mutant) close() that leaves the session scope but forgets connected = False
SseCloseKeepsConnected(c, n) ==
    IF ~c.connected THEN SseOut(c, n, "ok", "", <<>>, NoNorm)
    ELSE LET n1 == IF c.client_ctx THEN [n EXCEPT !.live = @ - 1] ELSE n
         IN SseOut([c EXCEPT !.client_ctx = FALSE, !.client = FALSE, !.tools_cache = <<>>],
                   n1, "ok", "", <<>>, NoNorm)

\* close() with _async_close(); leaving the session scope completes
SseClose(c, n) ==
    IF ~c.connected THEN SseOut(c, n, "ok", "", <<>>, NoNorm)
    ELSE LET n1 == IF c.client_ctx THEN [n EXCEPT !.live = @ - 1] ELSE n
         IN SseOut([c EXCEPT !.client_ctx = FALSE, !.client = FALSE,
                             !.connected = FALSE, !.tools_cache = <<>>],
                   n1, "ok", "", <<>>, NoNorm)

SseDiscoverTools(c, n, srv) ==
    LET k == SseConnect(c, n, srv) IN
    IF k.out # "ok" THEN k
    ELSE IF ~k.c.client THEN SseOut(k.c, k.n, "raise", "AssertionError", <<>>, NoNorm)
    ELSE IF ~srv.listOk THEN SseOut(k.c, k.n, "raise", "list_tools failed", <<>>, NoNorm)
    ELSE LET serialized == SeqMap(SetDefaultSchema,
                                  SelectSeq(srv.tools, LAMBDA t : t.name # ""))
         IN SseOut([k.c EXCEPT !.tools_cache = MergeByName(<<>>, serialized)],
                   k.n, "ok", "", serialized, NoNorm)

SseCallTool(c, n, srv, tool_name) ==
    LET k == SseConnect(c, n, srv) IN
    IF k.out # "ok" THEN k
    ELSE IF ~k.c.client THEN SseOut(k.c, k.n, "raise", "AssertionError", <<>>, NoNorm)
    ELSE IF ~srv.callOk THEN SseOut(k.c, k.n, "raise", "call_tool failed", <<>>, NoNorm)
    ELSE LET normalized == normalize_tool_result(srv.data) IN
         IF normalized.out # "ok"
         THEN SseOut(k.c, k.n, "raise", "AttributeError", <<>>, NoNorm)
         ELSE SseOut(k.c, k.n, "ok", "", <<>>, normalized)

SseLastNew == [op |-> "new", prev |-> "new", out |-> "ok", err |-> "", tools |-> <<>>,
               norm |-> NoNorm, srv |-> SseNoServer, was |-> FALSE]

SseRecordRead(op, r, srv, read) ==
    /\ readCall' = read
    /\ sse' = r.c
    /\ sseNet' = r.n
    /\ sseLast' = [op |-> op, prev |-> sseLast.op, out |-> r.out, err |-> r.err,
                   tools |-> r.tools, norm |-> r.norm, srv |-> srv, was |-> sse.connected]
    /\ UNCHANGED <<kind, wsVars, httpVars, appVars>>

SseRecord(op, r, srv) == SseRecordRead(op, r, srv, NoRead)

\* __del__: close() with its exceptions swallowed, then the loop is asked to
\* stop and the thread is joined
SseDel(c, n) ==
    SseOut([SseClose(c, n).c EXCEPT !.loop_running = FALSE], SseClose(c, n).n,
           "ok", "", <<>>, NoNorm)

\* methods are called on an object that has not been finalized
SseCanCall == kind = "sse" /\ sseLast.op # "__del__"
SseCanOpen == SseCanCall /\ sseNet.opened < MaxOpens

SseConnectCall ==
    /\ SseCanOpen
    /\ \E srv \in SseConnectServers : SseRecord("connect", SseConnect(sse, sseNet, srv), srv)

SseCloseCall ==
    /\ SseCanCall
    /\ SseRecord("close", SseClose(sse, sseNet), SseNoServer)

SseDelCall ==
    /\ SseCanCall
    /\ SseRecord("__del__", SseDel(sse, sseNet), SseNoServer)

SseDiscoverCall ==
    /\ SseCanOpen
    /\ \E srv \in SseDiscoverServers :
          SseRecord("discover_tools", SseDiscoverTools(sse, sseNet, srv), srv)

SseCallToolCall ==
    /\ SseCanOpen
    /\ \E srv \in SseCallServers, tool_name \in ToolNames :
          SseRecord("call_tool", SseCallTool(sse, sseNet, srv, tool_name), srv)

(***************************************************************************)
(* HTTP-shim client: mcp_clients/http_client.py                            *)
(***************************************************************************)
\* endpoints_to_try of _discover_from_mcp_endpoint, in order
DiscoveryProbes ==
    << [method |-> "POST", endpoint |-> "mcp/tools/list"],
       [method |-> "POST", endpoint |-> "tools/list"],
       [method |-> "GET",  endpoint |-> "mcp/tools/list"],
       [method |-> "GET",  endpoint |-> "tools/list"] >>

\* (mutant) the spec-shaped endpoint tried before the generic one
CallProbesSpecShapedFirst(tool_name) ==
    << [method |-> "POST", endpoint |-> "tools/call",     name |-> ""],
       [method |-> "POST", endpoint |-> "call_tool",      name |-> ""],
       [method |-> "POST", endpoint |-> "mcp/tools/call", name |-> ""],
       [method |-> "POST", endpoint |-> "tools/{name}",   name |-> tool_name],
       [method |-> "POST", endpoint |-> "invoke/{name}",  name |-> tool_name],
       [method |-> "POST", endpoint |-> "mcp/{name}",     name |-> tool_name] >>

\* endpoints of call_tool, in order; {name} stands for the tool name in the path
CallProbes(tool_name) ==
    << [method |-> "POST", endpoint |-> "call_tool",      name |-> ""],
       [method |-> "POST", endpoint |-> "tools/call",     name |-> ""],
       [method |-> "POST", endpoint |-> "mcp/tools/call", name |-> ""],
       [method |-> "POST", endpoint |-> "tools/{name}",   name |-> tool_name],
       [method |-> "POST", endpoint |-> "invoke/{name}",  name |-> tool_name],
       [method |-> "POST", endpoint |-> "mcp/{name}",     name |-> tool_name] >>

\* What one discovery probe meets: a request that raises (refused, timeout,
\* non-2xx, a body whose shape makes the extraction raise), or a body from which
\* the extraction (tools / result.tools / data / items / a bare list) gets a list.
HttpListBodies ==
    { [ok |-> FALSE, tools |-> <<>>],
      [ok |-> TRUE,  tools |-> <<>>],
      [ok |-> TRUE,  tools |-> << [name |-> "", schema |-> "NONE"] >>],
      [ok |-> TRUE,  tools |-> << [name |-> "read_file_mcp", schema |-> "NONE"],
                                  [name |-> "read_file_mcp", schema |-> "PATHDEF"] >>],
      [ok |-> TRUE,  tools |-> << [name |-> "", schema |-> "NONE"],
                                  [name |-> "tool_x", schema |-> "FORMAT"] >>] }

\* What one invocation probe meets: a request that raises, a 2xx body, or a 2xx
\* body the normalizer cannot take
HttpCallBodies == {"fail", "ok", "unnormalizable"}

\* the body an endpoint answers with when it answers
HttpCallBody(i) ==
    CASE i = 1 -> P_text [] i = 2 -> P_str [] i = 3 -> P_msg
      [] i = 4 -> P_two  [] i = 5 -> P_list [] OTHER -> P_num

AllFailList == [i \in 1..Len(DiscoveryProbes) |-> [ok |-> FALSE, tools |-> <<>>]]
AllFailCall == [i \in 1..6 |-> "fail"]

\* A server answers each endpoint the same way during a behaviour
\* Servers that both list a catalog (on the first discovery probe) and answer
\* invocations: on every endpoint, on none, or from the third endpoint on
ListingServers ==
    { [list |-> [i \in 1..Len(DiscoveryProbes) |->
                    IF i = 1 THEN [ok |-> TRUE, tools |-> catalog]
                    ELSE [ok |-> FALSE, tools |-> <<>>]],
       call |-> c] :
         catalog \in ReadCatalogs \cup {<<[name |-> "tool_x", schema |-> "FORMAT"]>>},
         c \in { [i \in 1..6 |-> "ok"], AllFailCall,
                 [i \in 1..6 |-> IF i = 1 THEN "fail"
                                  ELSE IF i = 2 THEN "unnormalizable" ELSE "ok"] } }

HttpServers ==
    { [list |-> l, call |-> AllFailCall] : l \in [1..Len(DiscoveryProbes) -> HttpListBodies] }
    \cup { [list |-> AllFailList, call |-> c] : c \in [1..6 -> HttpCallBodies] }
    \cup ListingServers

HttpNew == [connected |-> FALSE, tools_cache |-> <<>>]

HttpOut(c, out, err, tools, norm, probes) ==
    [c |-> c, out |-> out, err |-> err, tools |-> tools, norm |-> norm, probes |-> probes]

HttpConnect(c) == HttpOut([c EXCEPT !.connected = TRUE], "ok", <<>>, <<>>, NoNorm, <<>>)

\* requests.Session.close() releases the adapters and can be repeated
HttpClose(c) == HttpOut([c EXCEPT !.connected = FALSE], "ok", <<>>, <<>>, NoNorm, <<>>)

\* (mutant) the first probe that answers wins, even with no named tool
HttpDiscoverFirstAnswer(srv, i, probes) ==
    LET answering == {j \in i..Len(DiscoveryProbes) : srv.list[j].ok}
        k == IF answering = {} THEN Len(DiscoveryProbes)
             ELSE CHOOSE j \in answering : \A m \in answering : j <= m
    IN [tools |-> IF answering = {} THEN <<>>
                  ELSE SeqMap(SetDefaultSchema,
                              SelectSeq(srv.list[k].tools, LAMBDA tool : tool.name # "")),
        probes |-> probes \o SubSeq(DiscoveryProbes, i, k)]

\* the for loop of _discover_from_mcp_endpoint from probe i on
RECURSIVE HttpDiscoverFrom(_, _, _)
HttpDiscoverFrom(srv, i, probes) ==
    IF i > Len(DiscoveryProbes) THEN [tools |-> <<>>, probes |-> probes]
    ELSE LET sent == Append(probes, DiscoveryProbes[i])
             result == srv.list[i]
         IN IF ~result.ok THEN HttpDiscoverFrom(srv, i + 1, sent)
            ELSE LET cleaned == SelectSeq(result.tools, LAMBDA tool : tool.name # "")
                 IN IF cleaned # <<>>
                    THEN [tools |-> SeqMap(SetDefaultSchema, cleaned), probes |-> sent]
                    ELSE HttpDiscoverFrom(srv, i + 1, sent)

HttpDiscoverFromMcpEndpoint(srv) == HttpDiscoverFrom(srv, 1, <<>>)

HttpDiscoverTools(c, srv) ==
    LET k == HttpConnect(c).c
        d == HttpDiscoverFromMcpEndpoint(srv)
        tools == MergeByName(<<>>, d.tools)
    IN HttpOut([k EXCEPT !.tools_cache = tools], "ok", <<>>, tools, NoNorm, d.probes)

\* str(error) of what probe i raised: the failure of its request, or of
\* normalize_tool_result on its body
HttpProbeError(srv, tool_name, i) ==
    IF srv.call[i] = "fail" THEN <<"HTTPError", CallProbes(tool_name)[i].endpoint>>
    ELSE <<"AttributeError", CallProbes(tool_name)[i].endpoint>>

\* the for loop of call_tool from probe i on
RECURSIVE HttpCallFrom(_, _, _, _, _, _)
HttpCallFrom(c, srv, tool_name, i, probes, last_error) ==
    IF i > Len(CallProbes(tool_name))
    THEN HttpOut(c, "raise", <<"Could not call tool via HTTP. Last error", last_error>>,
                 <<>>, NoNorm, probes)
    ELSE LET sent == Append(probes, CallProbes(tool_name)[i])
             normalized == normalize_tool_result(
                               IF srv.call[i] = "ok" THEN HttpCallBody(i) ELSE P_numfrag)
         IN IF srv.call[i] # "fail" /\ normalized.out = "ok"
            THEN HttpOut(c, "ok", <<>>, <<>>, normalized, sent)
            ELSE HttpCallFrom(c, srv, tool_name, i + 1, sent, HttpProbeError(srv, tool_name, i))

NoError == <<"None", "">>

HttpCallTool(c, srv, tool_name) ==
    HttpCallFrom(HttpConnect(c).c, srv, tool_name, 1, <<>>, NoError)

HttpLastNew == [op |-> "new", prev |-> "new", out |-> "ok", err |-> <<>>, tools |-> <<>>,
                norm |-> NoNorm, probes |-> <<>>, was |-> FALSE, arg |-> ""]

HttpRecordRead(op, r, arg, read) ==
    /\ readCall' = read
    /\ http' = r.c
    /\ httpLast' = [op |-> op, prev |-> httpLast.op, out |-> r.out, err |-> r.err,
                    tools |-> r.tools, norm |-> r.norm, probes |-> r.probes,
                    was |-> http.connected, arg |-> arg]
    /\ UNCHANGED <<kind, httpSrv, wsVars, sseVars, appVars>>

HttpRecord(op, r, arg) == HttpRecordRead(op, r, arg, NoRead)

HttpCanCall == kind = "http"

HttpConnectCall == HttpCanCall /\ HttpRecord("connect", HttpConnect(http), "")

HttpCloseCall == HttpCanCall /\ HttpRecord("close", HttpClose(http), "")

HttpDiscoverCall == HttpCanCall /\ HttpRecord("discover_tools", HttpDiscoverTools(http, httpSrv), "")

HttpCallToolCall ==
    /\ HttpCanCall
    /\ \E tool_name \in ToolNames :
          HttpRecord("call_tool", HttpCallTool(http, httpSrv, tool_name), tool_name)

(***************************************************************************)
(* read_file of the three clients                                          *)
(***************************************************************************)
\* call_tool of the Socket-RPC client; the servers of the model answer a
\* tools/call request with an empty result object
WsCalled(r) ==
    [r |-> r, norm |-> IF r.out = "ok" THEN normalize_tool_result(P_other) ELSE NoNorm]

WsCallConnected(k, srv) ==
    IF k.out # "ok" THEN WsCalled(k)
    ELSE WsCalled(WsSendRpcRequest(k.c, k.n, srv, "tools/call", 0))

WsCallTool(c, n, srv, tool_name) == WsCallConnected(WsConnect(c, n, srv), srv)

\* lines 122-123, k being what call_tool did
WsReadCalled(tools_cache, candidate, k) ==
    [r |-> k.r, read |-> Read(tools_cache, candidate, 1, k.r.out, k.norm.content)]

WsReadFile(c, n, srv) ==
    IF FirstCached(c.tools_cache, 1) = NoCandidate
    THEN [r |-> WsOut(c, n, "ok", "", EmptyResult),
          read |-> Read(c.tools_cache, NoCandidate, 0, "ok",
                        <<"Error: no read_file tool registered on">>)]
    ELSE WsReadCalled(c.tools_cache, FirstCached(c.tools_cache, 1),
                      WsCallTool(c, n, srv, FirstCached(c.tools_cache, 1)))

WsRead(x) == WsRecordRead("read_file", x.r, x.read)

WsReadFileCall == WsCanOpen /\ WsRead(WsReadFile(ws, wsNet, wsSrv))

\* lines 108-109, k being what call_tool did
SseReadCalled(tools_cache, candidate, k) ==
    [r |-> k, read |-> Read(tools_cache, candidate, 1, k.out, k.norm.content)]

SseReadFile(c, n, srv) ==
    IF FirstCached(c.tools_cache, 1) = NoCandidate
    THEN [r |-> SseOut(c, n, "ok", "", <<>>, NoNorm),
          read |-> Read(c.tools_cache, NoCandidate, 0, "ok",
                        <<"Error: no read_file tool registered on">>)]
    ELSE SseReadCalled(c.tools_cache, FirstCached(c.tools_cache, 1),
                       SseCallTool(c, n, srv, FirstCached(c.tools_cache, 1)))

SseRead(x, srv) == SseRecordRead("read_file", x.r, srv, x.read)

SseReadFileCall ==
    /\ SseCanOpen
    /\ \E srv \in SseCallServers : SseRead(SseReadFile(sse, sseNet, srv), srv)

\* lines 128-129, k being what call_tool did
HttpReadCalled(tools_cache, candidate, k) ==
    [r |-> k, read |-> Read(tools_cache, candidate, 1, k.out, k.norm.content)]

HttpReadFile(c, srv) ==
    IF FirstCached(c.tools_cache, 1) = NoCandidate
    THEN [r |-> HttpOut(c, "ok", <<>>, <<>>, NoNorm, <<>>),
          read |-> Read(c.tools_cache, NoCandidate, 0, "ok",
                        <<"No read_file tool available on">>)]
    ELSE HttpReadCalled(c.tools_cache, FirstCached(c.tools_cache, 1),
                        HttpCallTool(c, srv, FirstCached(c.tools_cache, 1)))

HttpRead(x) == HttpRecordRead("read_file", x.r, x.read.candidate, x.read)

HttpReadFileCall == HttpCanCall /\ HttpRead(HttpReadFile(http, httpSrv))

(***************************************************************************)
(* Agent loop, pure parts: mcp-client/app.py                               *)
(***************************************************************************)
READ_TOOL_CANDIDATES == <<"read_file_mcp", "read_file", "readfile", "read_from_file">>
DEFAULT_FILE_PATH == "sample.txt"
NoName == ""    \* None where a tool name is expected (None and "" are both falsy)

\* "read" in name.lower() and "file" in name.lower(), over the names of the model
HasReadAndFile(name) ==
    name \in {"read_file_mcp", "read_file", "readfile", "read_from_file", "file_reader"}

FirstIndex(S) == CHOOSE i \in S : \A j \in S : i <= j

\* find_read_tool: the name of the tool it returns, NoName for None
RECURSIVE FindCandidate(_, _)
FindCandidate(tools, c) ==
    IF c > Len(READ_TOOL_CANDIDATES) THEN NoName
    ELSE IF \E i \in 1..Len(tools) : tools[i].name = READ_TOOL_CANDIDATES[c]
         THEN READ_TOOL_CANDIDATES[c]
         ELSE FindCandidate(tools, c + 1)

find_read_tool(tools) ==
    LET byName == FindCandidate(tools, 1)
        fuzzy  == {i \in 1..Len(tools) : HasReadAndFile(tools[i].name)}
    IN IF byName # NoName THEN byName
       ELSE IF fuzzy # {} THEN tools[FirstIndex(fuzzy)].name
       ELSE IF tools # <<>> THEN tools[1].name
       ELSE NoName

\* Input schemas.  properties: the declared parameters; default: the "default"
\* entry of a declared parameter ("ABSENT" without one, "NULL" for null);
\* required: the required list.
Params == {"path", "format"}

SchemaOf(id) ==
    CASE id = "PATHDEF" -> [properties |-> {"path"},
                            default |-> [q \in Params |-> IF q = "path" THEN "sample.txt" ELSE "ABSENT"],
                            required |-> <<"path">>]
      [] id = "FORMAT"  -> [properties |-> {"format"},
                            default |-> [q \in Params |-> "ABSENT"],
                            required |-> <<"format">>]
      [] OTHER          -> [properties |-> {}, default |-> [q \in Params |-> "ABSENT"],
                            required |-> <<>>]

\* An argument mapping gives each parameter its value: "ABSENT" for a missing
\* key, "NULL" for None, "" for the empty string
NoArgs == [q \in Params |-> "ABSENT"]
Unfilled(args, q) == args[q] \in {"ABSENT", "NULL", ""}

\* (mutant) a defaulting loop that fills only keys that are missing, not the
\* ones that are None or empty
RECURSIVE FillRequiredMissingOnly(_, _, _)
FillRequiredMissingOnly(args, schema, i) ==
    IF i > Len(schema.required) THEN args
    ELSE LET param == schema.required[i]
             default_value == IF param \in schema.properties THEN schema.default[param]
                              ELSE "ABSENT"
         IN IF args[param] = "ABSENT" /\ default_value \notin {"ABSENT", "NULL"}
            THEN FillRequiredMissingOnly([args EXCEPT ![param] = default_value], schema, i + 1)
            ELSE FillRequiredMissingOnly(args, schema, i + 1)

\* the defaulting loop over required[i..]
RECURSIVE FillRequired(_, _, _)
FillRequired(args, schema, i) ==
    IF i > Len(schema.required) THEN args
    ELSE LET param == schema.required[i]
             default_value == IF param \in schema.properties THEN schema.default[param]
                              ELSE "ABSENT"
         IN IF Unfilled(args, param) /\ default_value \notin {"ABSENT", "NULL"}
            THEN FillRequired([args EXCEPT ![param] = default_value], schema, i + 1)
            ELSE FillRequired(args, schema, i + 1)

\* (mutant) a missing list that names only the first unfilled parameter
MissingFirstOnly(args, schema) ==
    LET all == SelectSeq(schema.required, LAMBDA q : Unfilled(args, q))
    IN IF all = <<>> THEN <<>> ELSE <<all[1]>>

\* line 144: the required parameters still missing or empty, in schema order
MissingRequired(args, schema) ==
    SelectSeq(schema.required, LAMBDA q : Unfilled(args, q))

\* lines 132-148, schema being what lines 128-130 read from the tool
PrepareWithSchema(schema, planned_args) ==
    LET default_path == IF schema.default["path"] \in {"ABSENT", "NULL", ""}
                        THEN DEFAULT_FILE_PATH ELSE schema.default["path"]
        args1 == IF "path" \in schema.properties /\ planned_args["path"] = "ABSENT"
                 THEN [planned_args EXCEPT !["path"] = default_path]
                 ELSE planned_args
        args2 == FillRequired(args1, schema, 1)
        missing == MissingRequired(args2, schema)
    IN IF missing # <<>>
       THEN [out |-> "raise", err |-> <<"Missing required arguments">> \o missing, args |-> args2]
       ELSE [out |-> "ok", err |-> <<>>, args |-> args2]

prepare_tool_arguments(tool, planned_args) ==
    PrepareWithSchema(SchemaOf(tool.schema), planned_args)

\* The text of a completion: where find("{") and rfind("}") land (-1 when
\* absent), whether the span between them parses, and the object it parses to
NoPlanData == [tool_name |-> JAbsent, arguments |-> JAbsent, reasoning |-> JAbsent]

_extract_json_object(text) ==
    IF text.empty THEN [found |-> FALSE, obj |-> NoPlanData]
    ELSE IF text.start = -1 \/ text.end = -1 \/ text.end < text.start
         THEN [found |-> FALSE, obj |-> NoPlanData]
         ELSE IF text.parses THEN [found |-> TRUE, obj |-> text.obj]
              ELSE [found |-> FALSE, obj |-> NoPlanData]

\* reasoning strings are kept as the sequence of their parts
Reasoning(parts) == [t |-> "str", parts |-> parts]

\* plan_data.setdefault("reasoning", ""); plan_data["reasoning"] += note
AddNote(pd, note) ==
    IF pd.out # "ok" THEN pd
    ELSE IF pd.reasoning.t = "absent"
         THEN [pd EXCEPT !.reasoning = Reasoning(<<note>>)]
    ELSE IF pd.reasoning.t = "str"
         THEN [pd EXCEPT !.reasoning = Reasoning(Append(@.parts, note))]
    ELSE [pd EXCEPT !.out = "raise"]     \* TypeError: None / a number += str

Note(what, a, b) == [note |-> what, a |-> a, b |-> b]

\* plan_tool_with_llm from line 215 on; llm is the completion service's answer:
\* whether the call failed, and its text
plan_tool_with_llm(tools, llm, required_tool_name) ==
    LET extracted == _extract_json_object(llm.text)
        plan_data == IF llm.fail
                     THEN [tool_name |-> JNull, arguments |-> [t |-> "dict", d |-> NoArgs],
                           reasoning |-> Reasoning(<<Note("Planning failed", "", "")>>)]
                     ELSE extracted.obj
        tool_name0 == IF plan_data.tool_name.t = "name" THEN plan_data.tool_name.name
                      ELSE NoName
        available_names == {tools[i].name : i \in 1..Len(tools)} \ {NoName}
        pd0 == [out |-> "ok", reasoning |-> plan_data.reasoning]
        unknown == tool_name0 # NoName /\ tool_name0 \notin available_names
        pd1 == IF unknown THEN AddNote(pd0, Note("tool not available", tool_name0, "")) ELSE pd0
        tool_name1 == IF unknown THEN NoName ELSE tool_name0
        pd2 == IF required_tool_name = NoName THEN pd1
               ELSE IF required_tool_name \notin available_names
                    THEN AddNote(pd1, Note("required tool not available", required_tool_name, ""))
               ELSE IF tool_name1 = required_tool_name THEN pd1
               ELSE IF tool_name1 # NoName
                    THEN AddNote(pd1, Note("overriding with required", tool_name1, required_tool_name))
                    ELSE AddNote(pd1, Note("using required tool", required_tool_name, ""))
        tool_name2 == IF required_tool_name = NoName THEN tool_name1
                      ELSE IF required_tool_name \notin available_names THEN NoName
                      ELSE required_tool_name
        arguments == IF plan_data.arguments.t = "dict" THEN plan_data.arguments.d ELSE NoArgs
        reasoning == IF pd2.reasoning.t = "absent" THEN Reasoning(<<>>) ELSE pd2.reasoning
    IN [out |-> pd2.out, tool_name |-> tool_name2, arguments |-> arguments,
        reasoning |-> reasoning]

\* A text shown to the user is kept as the sequence of its non-empty parts, so
\* the empty string is the empty sequence; name: the request or tool name a
\* part quotes, text: the characters of a completion or of a tool's output
Part(part, name, text) == [part |-> part, name |-> name, text |-> text]

\* What the completion service does with the composing prompt: the call fails,
\* or it answers with an output_text (None when the response holds no text)
ComposeAnswers ==
    { [fail |-> TRUE,  text |-> JNull],
      [fail |-> FALSE, text |-> JNull],
      [fail |-> FALSE, text |-> JStr(<<>>)],
      [fail |-> FALSE, text |-> JStr(<<" ", "s", "u", "m", "\n">>)] }

\* (mutant) a fallback that leaves the tool output out
FallbackWithoutOutput(user_request, tool_name, tool_output) ==
    <<Part("request", user_request, <<>>), Part("failure note", "", <<>>)>>

\* lines 296-301: the except branch
Fallback(user_request, tool_name, tool_output) ==
    <<Part("request", user_request, <<>>)>>
    \o (IF tool_output # <<>>
        THEN <<Part("tool output header", tool_name, <<>>),
               Part("tool output", "", tool_output)>>
        ELSE <<>>)
    \o <<Part("failure note", "", <<>>)>>

\* (mutant) a composer that returns the summary alone
SummaryOnly(summary_text, tool_name, tool_output) ==
    IF summary_text # <<>> THEN <<Part("summary", "", summary_text)>> ELSE <<>>

\* lines 303-309: the summary, then the delimited tool output
SummaryWithOutput(summary_text, tool_name, tool_output) ==
    (IF summary_text # <<>> THEN <<Part("summary", "", summary_text)>> ELSE <<>>)
    \o (IF tool_output # <<>>
        THEN <<Part("file content delimiter",
                    IF tool_name # NoName THEN tool_name ELSE "tool", <<>>),
               Part("tool output", "", tool_output)>>
        ELSE <<>>)

\* compose_final_response; llm: what the completion service does.  .strip() of
\* an output_text that is None raises inside the try block
compose_final_response(user_request, tool_name, tool_output, llm) ==
    IF llm.fail \/ llm.text.t # "str"
    THEN [out |-> "ok", text |-> Fallback(user_request, tool_name, tool_output)]
    ELSE [out |-> "ok",
          text |-> SummaryWithOutput(Strip(llm.text.s), tool_name, tool_output)]

(***************************************************************************)
(* Agent loop, session state and the two buttons: mcp-client/app.py        *)
(***************************************************************************)
AppEndpoints == {"e1", "e2"}
UrlInputs == {""} \cup AppEndpoints      \* what the URL box can hold

\* Catalogs an SSE server of the model lists
AppCatalogs ==
    { <<>>,
      <<[name |-> "read_file_mcp", schema |-> "NONE"]>>,
      <<[name |-> "tool_x", schema |-> "FORMAT"],
        [name |-> "read_file_mcp", schema |-> "PATHDEF"]>>,
      <<[name |-> "tool_x", schema |-> "FORMAT"]>>,
      <<[name |-> "tool_x", schema |-> "FORMAT"],
        [name |-> "file_reader", schema |-> "NONE"]>> }

AppPayloads == {P_text, P_null, P_numfrag}

AppServers ==
    [up : {TRUE}, listOk : {TRUE}, tools : AppCatalogs, callOk : {TRUE}, data : AppPayloads]
    \cup [up : {TRUE}, listOk : {TRUE}, tools : AppCatalogs, callOk : {FALSE}, data : {JNull}]
    \cup [up : BOOLEAN, listOk : {FALSE}, tools : {<<>>}, callOk : {FALSE}, data : {JNull}]

\* The second endpoint is one of three servers
OtherServers ==
    { SseNoServer,
      [up |-> TRUE, listOk |-> TRUE, tools |-> <<>>, callOk |-> FALSE, data |-> JNull],
      [up |-> TRUE, listOk |-> TRUE, tools |-> <<[name |-> "tool_x", schema |-> "FORMAT"]>>,
       callOk |-> TRUE, data |-> P_text] }

NoClient == [some |-> FALSE, endpoint |-> "", c |-> SseNew]
NoKey == <<>>

\* st.session_state, with the sessions the clients hold, as one record
Session ==
    [mcp_client |-> mcp_client, mcp_client_key |-> mcp_client_key,
     mcp_connected |-> mcp_connected, mcp_server_url |-> mcp_server_url,
     available_tools |-> available_tools, net |-> appNet]

SessionNew ==
    [mcp_client |-> NoClient, mcp_client_key |-> NoKey, mcp_connected |-> FALSE,
     mcp_server_url |-> "", available_tools |-> <<>>, net |-> SseNetNew]

\* (mutant) get_mcp_client that opens the session of the new endpoint before it
\* closes the one of the previous endpoint
get_mcp_client_opens_first(st, endpoint, srv) ==
    IF endpoint = "" THEN [st |-> st, client |-> NoClient]
    ELSE
    LET key == <<"SSE", endpoint>>
        switching == st.mcp_client_key # key /\ st.mcp_client.some
        k == SseConnect(SseNew, st.net, srv[endpoint])
        closed == SseClose(st.mcp_client.c, k.n)
        net2 == IF switching THEN closed.n ELSE k.n
        st1 == IF switching
               THEN [st EXCEPT !.mcp_client = NoClient, !.mcp_connected = FALSE]
               ELSE st
        st2 == IF st1.mcp_client.some THEN st1
               ELSE IF k.out = "ok"
                    THEN [st1 EXCEPT !.mcp_client = [some |-> TRUE, endpoint |-> endpoint,
                                                     c |-> k.c],
                                     !.mcp_client_key = key,
                                     !.mcp_server_url = endpoint,
                                     !.net = net2]
                    ELSE [st1 EXCEPT !.mcp_client = NoClient, !.mcp_client_key = NoKey,
                                     !.net = net2]
    IN [st |-> st2, client |-> st2.mcp_client]

\* (mutant) get_mcp_client that empties the slot of the previous endpoint and
\* leaves mcp_connected as it was
get_mcp_client_keeps_connected(st, endpoint, srv) ==
    IF endpoint = "" THEN [st |-> st, client |-> NoClient]
    ELSE
    LET key == <<"SSE", endpoint>>
        closed == SseClose(st.mcp_client.c, st.net)
        st1 == IF st.mcp_client_key # key /\ st.mcp_client.some
               THEN [st EXCEPT !.mcp_client = NoClient, !.net = closed.n]
               ELSE st
        k == SseConnect(SseNew, st1.net, srv[endpoint])
        st2 == IF st1.mcp_client.some THEN st1
               ELSE IF k.out = "ok"
                    THEN [st1 EXCEPT !.mcp_client = [some |-> TRUE, endpoint |-> endpoint,
                                                     c |-> k.c],
                                     !.mcp_client_key = key,
                                     !.mcp_server_url = endpoint,
                                     !.net = k.n]
                    ELSE [st1 EXCEPT !.mcp_client = NoClient, !.mcp_client_key = NoKey,
                                     !.net = k.n]
    IN [st |-> st2, client |-> st2.mcp_client]

\* get_mcp_client: the new session state and the client returned
get_mcp_client(st, endpoint, srv) ==
    IF endpoint = "" THEN [st |-> st, client |-> NoClient]
    ELSE
    LET key == <<"SSE", endpoint>>
        closed == SseClose(st.mcp_client.c, st.net)
        st1 == IF st.mcp_client_key # key /\ st.mcp_client.some
               THEN [st EXCEPT !.mcp_client = NoClient, !.mcp_connected = FALSE,
                               !.net = closed.n]
               ELSE st
        k == SseConnect(SseNew, st1.net, srv[endpoint])
        st2 == IF st1.mcp_client.some THEN st1
               ELSE IF k.out = "ok"
                    THEN [st1 EXCEPT !.mcp_client = [some |-> TRUE, endpoint |-> endpoint,
                                                     c |-> k.c],
                                     !.mcp_client_key = key,
                                     !.mcp_server_url = endpoint,
                                     !.net = k.n]
                    ELSE [st1 EXCEPT !.mcp_client = NoClient, !.mcp_client_key = NoKey,
                                     !.net = k.n]
    IN [st |-> st2, client |-> st2.mcp_client]

\* discover_tools of app.py, on the client held in the slot
discover_tools(st, client, srv) ==
    IF ~client.some THEN [st |-> st, tools |-> <<>>]
    ELSE
    LET k == SseDiscoverTools(client.c, st.net, srv[client.endpoint])
        st1 == [st EXCEPT !.mcp_client.c = k.c, !.net = k.n]
    IN IF k.out # "ok"
       THEN [st |-> [st1 EXCEPT !.mcp_connected = FALSE], tools |-> <<>>]
       ELSE IF k.tools # <<>>
            THEN [st |-> [st1 EXCEPT !.available_tools = k.tools, !.mcp_connected = TRUE],
                  tools |-> k.tools]
            ELSE [st |-> [st1 EXCEPT !.mcp_connected = TRUE], tools |-> <<>>]

\* call_mcp_tool; calls counts the invocations of client.call_tool
NoCall == [success |-> FALSE, error |-> "", content |-> <<>>, raw |-> JNull]

\* lines 95-104, k being what client.call_tool did
CallResult(st, k) ==
    [st |-> [st EXCEPT !.mcp_client.c = k.c, !.net = k.n],
     calls |-> 1,
     result |-> IF k.out = "ok"
                THEN [success |-> TRUE, error |-> "", content |-> k.norm.content,
                      raw |-> k.norm.raw]
                ELSE [NoCall EXCEPT !.error = k.err]]

call_mcp_tool(st, client, srv, tool_name) ==
    IF ~client.some
    THEN [st |-> st, calls |-> 0,
          result |-> [NoCall EXCEPT !.error = "MCP client not connected"]]
    ELSE CallResult(st, SseCallTool(client.c, st.net, srv[client.endpoint], tool_name))

\* What the completion service can answer to the planning prompt
JName(name) == [t |-> "name", name |-> name]
JArgs(d) == [t |-> "dict", d |-> d]
LlmReasoning == Reasoning(<<Note("llm", "", "")>>)

Text(start, end, parses, obj) ==
    [empty |-> FALSE, start |-> start, end |-> end, parses |-> parses, obj |-> obj]

PlanTexts ==
    { [empty |-> TRUE, start |-> -1, end |-> -1, parses |-> FALSE, obj |-> NoPlanData],
      Text(-1, -1, FALSE, NoPlanData),           \* prose without braces
      Text(5, 2, FALSE, NoPlanData),             \* "}" before "{"
      Text(0, 9, FALSE, NoPlanData),             \* braces around something that is not JSON
      Text(3, 40, TRUE, [tool_name |-> JName("read_file_mcp"),
                         arguments |-> JArgs([NoArgs EXCEPT !["path"] = "a.txt"]),
                         reasoning |-> LlmReasoning]),
      Text(0, 40, TRUE, [tool_name |-> JName("tool_x"),
                         arguments |-> JArgs([NoArgs EXCEPT !["format"] = "json"]),
                         reasoning |-> JAbsent]),
      Text(0, 40, TRUE, [tool_name |-> JName("tool_x"),
                         arguments |-> JArgs([NoArgs EXCEPT !["format"] = ""]),
                         reasoning |-> LlmReasoning]),
      Text(0, 40, TRUE, [tool_name |-> JNull, arguments |-> JAbsent, reasoning |-> JNull]),
      Text(0, 40, TRUE, [tool_name |-> JName("ghost"), arguments |-> JList(<<>>),
                         reasoning |-> JNum(1)]),
      Text(0, 40, TRUE, [tool_name |-> JNum(1),
                         arguments |-> JArgs([NoArgs EXCEPT !["path"] = "NULL"]),
                         reasoning |-> LlmReasoning]) }

LlmPlans ==
    {[fail |-> TRUE, text |-> Text(-1, -1, FALSE, NoPlanData)]}
    \cup {[fail |-> FALSE, text |-> t] : t \in PlanTexts}

NoResult == [some |-> FALSE, content |-> <<>>, raw |-> JNull]
NoToolError == <<>>

Invocation(st, plan_tool_name, arguments_used, tool_result, tool_error, output, calls, phases) ==
    [st |-> st, plan_tool_name |-> plan_tool_name, arguments_used |-> arguments_used,
     tool_result |-> tool_result, tool_error |-> tool_error,
     tool_output_text |-> output, calls |-> calls, phases |-> phases]

\* (mutant) a failed call that is kept as the tool result next to its error
InvokedKeepsFailedResult(called, tool_name, arguments_used) ==
    IF called.result.success
    THEN Invocation(called.st, tool_name, arguments_used,
                    [some |-> TRUE, content |-> called.result.content,
                     raw |-> called.result.raw],
                    NoToolError, called.result.content, called.calls,
                    <<"ResolvingArguments", "Invoking">>)
    ELSE Invocation(called.st, tool_name, arguments_used,
                    [some |-> TRUE, content |-> called.result.content,
                     raw |-> called.result.raw],
                    <<called.result.error>>, <<>>, called.calls,
                    <<"ResolvingArguments", "Invoking">>)

\* lines 410-415, called being what call_mcp_tool returned
Invoked(called, tool_name, arguments_used) ==
    IF called.result.success
    THEN Invocation(called.st, tool_name, arguments_used,
                    [some |-> TRUE, content |-> called.result.content,
                     raw |-> called.result.raw],
                    NoToolError, called.result.content, called.calls,
                    <<"ResolvingArguments", "Invoking">>)
    ELSE Invocation(called.st, tool_name, arguments_used, NoResult,
                    <<called.result.error>>, <<>>, called.calls,
                    <<"ResolvingArguments", "Invoking">>)

\* (mutant) an argument error that is dropped instead of kept in tool_error
ResolvedDropsError(st, client, srv, tool_name, prepared) ==
    IF prepared.out # "ok"
    THEN Invocation(st, NoName, NoArgs, NoResult, NoToolError, <<>>, 0,
                    <<"ResolvingArguments">>)
    ELSE Invoked(call_mcp_tool(st, client, srv, tool_name), tool_name, prepared.args)

\* lines 403-415, prepared being what prepare_tool_arguments did
Resolved(st, client, srv, tool_name, prepared) ==
    IF prepared.out # "ok"
    THEN Invocation(st, NoName, NoArgs, NoResult, prepared.err, <<>>, 0,
                    <<"ResolvingArguments">>)
    ELSE Invoked(call_mcp_tool(st, client, srv, tool_name), tool_name, prepared.args)

\* (mutant) the invocation step without the membership test and with the call
\* made whether or not argument resolution raised
InvokeToolUnchecked(st, client, srv, tools, plan) ==
    IF plan.tool_name = NoName
    THEN Invocation(st, NoName, NoArgs, NoResult, NoToolError, <<>>, 0, <<>>)
    ELSE Invoked(call_mcp_tool(st, client, srv, plan.tool_name), plan.tool_name,
                 plan.arguments)

\* lines 391-415 of the run: the membership test, argument resolution and the
\* one call of the tool
InvokeTool(st, client, srv, tools, plan) ==
    LET available_names == {tools[i].name : i \in 1..Len(tools)} \ {NoName}
        named == {i \in 1..Len(tools) : tools[i].name = plan.tool_name}
    IN IF plan.tool_name = NoName
       THEN Invocation(st, NoName, NoArgs, NoResult, NoToolError, <<>>, 0, <<>>)
       ELSE IF plan.tool_name \notin available_names
            THEN Invocation(st, NoName, NoArgs, NoResult,
                            <<"Tool is not available", plan.tool_name>>, <<>>, 0, <<>>)
            ELSE Resolved(st, client, srv, plan.tool_name,
                          prepare_tool_arguments(tools[FirstIndex(named)], plan.arguments))

\* The record kept of the last press of "Run Agent"
RunNew ==
    [op |-> "none", out |-> "", n |-> 0, phases |-> <<>>, endpoint |-> "",
     request |-> "", tools |-> <<>>,
     proposed |-> NoPlanData, failed_llm |-> FALSE, required |-> NoName,
     selected |-> NoName, arguments |-> NoArgs, resolved |-> FALSE, calls |-> 0,
     tool_output_text |-> <<>>, hist_before |-> 0, content_before |-> <<>>,
     final_response |-> <<>>]

Entry(plan, inv, final_response) ==
    [plan |-> [tool_name |-> inv.plan_tool_name, arguments |-> plan.arguments,
               reasoning |-> plan.reasoning],
     arguments_used |-> inv.arguments_used, tool_result |-> inv.tool_result,
     tool_error |-> inv.tool_error, final_response |-> final_response]

HistoryCap == 10

\* (mutant) the entry put at the end of the history instead of its head
InsertEntryAtEnd(history, entry) ==
    LET inserted == history \o <<entry>>
    IN SubSeq(inserted, 1, IF Len(inserted) < HistoryCap THEN Len(inserted) ELSE HistoryCap)

\* agent_history.insert(0, entry); agent_history = agent_history[:10]
InsertEntry(history, entry) ==
    LET inserted == <<entry>> \o history
    IN SubSeq(inserted, 1, IF Len(inserted) < HistoryCap THEN Len(inserted) ELSE HistoryCap)

\* lines 417-437: compose, store the text, insert the entry
RunComposed(rec, inv, plan, final_response, history) ==
    [st |-> inv.st,
     history |-> InsertEntry(history, Entry(plan, inv, final_response)),
     content |-> final_response,
     rec |-> [rec EXCEPT !.out = "done",
                         !.phases = <<"Connecting", "Discovering", "Planning">>
                                    \o inv.phases \o <<"Composing", "Done">>,
                         !.selected = plan.tool_name,
                         !.arguments = plan.arguments,
                         !.resolved = (inv.phases # <<>> /\ inv.plan_tool_name # NoName),
                         !.calls = inv.calls,
                         !.tool_output_text = inv.tool_output_text,
                         !.final_response = final_response]]

RunInvoked(rec, inv, plan, answer, history) ==
    RunComposed(rec, inv, plan,
                compose_final_response(rec.request, inv.plan_tool_name,
                                       inv.tool_output_text, answer).text,
                history)

\* lines 384-415: an exception of the planner leaves the run
RunPlanned(rec, d, client, srv, plan, answer, history, content) ==
    IF plan.out # "ok"
    THEN [st |-> d.st, history |-> history, content |-> content,
          rec |-> [rec EXCEPT !.out = "crashed",
                              !.phases = <<"Connecting", "Discovering", "Planning">>]]
    ELSE RunInvoked(rec, InvokeTool(d.st, client, srv, d.tools, plan), plan, answer, history)

\* lines 382-389, d being the session and the tools of line 381
RunDiscovered(rec, d, client, srv, llm, answer, history, content) ==
    RunPlanned([rec EXCEPT !.tools = d.tools, !.required = find_read_tool(d.tools)],
               d, client, srv,
               plan_tool_with_llm(d.tools, llm, find_read_tool(d.tools)),
               answer, history, content)

\* (mutant) a run that goes on to discovery and planning without a client
RunConnectedGoesOn(rec, got, srv, llm, answer, history, content) ==
    RunDiscovered([rec EXCEPT !.endpoint = got.client.endpoint],
                  IF got.st.available_tools # <<>>
                  THEN [st |-> got.st, tools |-> got.st.available_tools]
                  ELSE discover_tools(got.st, got.client, srv),
                  got.client, srv, llm, answer, history, content)

\* lines 377-381, got being what get_mcp_client returned
RunConnected(rec, got, srv, llm, answer, history, content) ==
    IF ~got.client.some
    THEN [st |-> got.st, history |-> history, content |-> content,
          rec |-> [rec EXCEPT !.out = "failed", !.phases = <<"Connecting", "Failed">>]]
    ELSE RunDiscovered([rec EXCEPT !.endpoint = got.client.endpoint],
                       IF got.st.available_tools # <<>>
                       THEN [st |-> got.st, tools |-> got.st.available_tools]
                       ELSE discover_tools(got.st, got.client, srv),
                       got.client, srv, llm, answer, history, content)

\* The else branch of the run (lines 376-437) as a function of the session, the
\* URL box, the servers, the two answers of the completion service and the
\* request typed
RunAgent(st, url, srv, llm, answer, history, content, user_request) ==
    RunConnected([RunNew EXCEPT !.op = "run",
                                !.request = user_request,
                                !.proposed = IF llm.fail THEN NoPlanData
                                             ELSE _extract_json_object(llm.text).obj,
                                !.failed_llm = llm.fail,
                                !.hist_before = Len(history),
                                !.content_before = content],
                 get_mcp_client(st, url, srv), srv, llm, answer, history, content)

AppCanAct == kind = "app"

StoreSession(st) ==
    /\ mcp_client' = st.mcp_client
    /\ mcp_client_key' = st.mcp_client_key
    /\ mcp_connected' = st.mcp_connected
    /\ mcp_server_url' = st.mcp_server_url
    /\ available_tools' = st.available_tools
    /\ appNet' = st.net

\* lines 341-348, got being what get_mcp_client returned
Connected(got, srv) ==
    IF got.client.some THEN discover_tools(got.st, got.client, srv).st ELSE got.st

\* The "Connect to MCP Server" button (lines 338-348)
ConnectClicked ==
    /\ AppCanAct
    /\ appNet.opened < MaxOpens
    /\ \E url \in UrlInputs :
          StoreSession(Connected(get_mcp_client(Session, url, appSrv), appSrv))
    /\ UNCHANGED <<kind, readCall, wsVars, sseVars, httpVars, agent_history, generated_content,
                   appSrv, appLlm, planCall, argsCall, composeCall, normCall, run>>

\* The "Run Agent" button (lines 362-437); the button is disabled without an
\* API key or while mcp_connected is false, and an empty request is refused
RunAgentClicked ==
    /\ AppCanAct
    /\ run.n < MaxRuns
    /\ \E api_key \in {"", "sk"}, user_request \in {"", "summarize"}, url \in UrlInputs :
          /\ api_key # ""
          /\ mcp_connected
          /\ user_request # ""
          /\ LET r == RunAgent(Session, url, appSrv, appLlm.plan, appLlm.compose,
                               agent_history,
                               generated_content, user_request)
             IN /\ StoreSession(r.st)
                /\ agent_history' = r.history
                /\ generated_content' = r.content
                /\ run' = [r.rec EXCEPT !.n = run.n + 1]
    /\ UNCHANGED <<kind, readCall, wsVars, sseVars, httpVars, appSrv, appLlm, planCall, argsCall,
                   composeCall, normCall>>

(***************************************************************************)
(* Specification                                                           *)
(***************************************************************************)
\* a completion service that fails both calls
NoLlm == [plan |-> [fail |-> TRUE, text |-> Text(-1, -1, FALSE, NoPlanData)],
          compose |-> [fail |-> TRUE, text |-> JNull]]

\* in a session the composing call fails or answers with a summary
AppComposeAnswers == {a \in ComposeAnswers : a.fail \/ (a.text.t = "str" /\ a.text.s # <<>>)}

NoPlan == [out |-> "", tool_name |-> NoName, arguments |-> NoArgs,
           reasoning |-> Reasoning(<<>>)]

PlanCallNew ==
    [op |-> "none", tools |-> <<>>, required_tool_name |-> NoName,
     llm |-> [fail |-> TRUE, text |-> Text(-1, -1, FALSE, NoPlanData)], plan |-> NoPlan]

NoSchema == [properties |-> {}, default |-> [q \in Params |-> "ABSENT"], required |-> <<>>]

ArgsCallNew ==
    [op |-> "none", schema |-> NoSchema, planned_args |-> NoArgs,
     result |-> [out |-> "", err |-> <<>>, args |-> NoArgs]]

ComposeCallNew ==
    [op |-> "none", user_request |-> "", tool_name |-> NoName, tool_output |-> <<>>,
     reasoning |-> "", llm |-> NoLlm.compose, result |-> [out |-> "", text |-> <<>>]]

NormCallNew == [op |-> "none", result |-> JNull, normalized |-> NormOut("", <<>>, JNull)]

InitCalls ==
    /\ planCall = PlanCallNew
    /\ argsCall = ArgsCallNew
    /\ composeCall = ComposeCallNew
    /\ normCall = NormCallNew

InitSession ==
    /\ mcp_client = NoClient
    /\ mcp_client_key = NoKey
    /\ mcp_connected = FALSE
    /\ mcp_server_url = ""
    /\ available_tools = <<>>
    /\ agent_history = <<>>
    /\ generated_content = <<>>
    /\ appNet = SseNetNew
    /\ run = RunNew

Init ==
    /\ kind \in {"ws", "sse", "http"}
    /\ readCall = NoRead
    /\ ws = WsNew
    /\ wsNet = WsNetNew
    /\ wsSrv \in (IF kind = "ws" THEN WsServers ELSE {Refusing})
    /\ wsLast = WsLastNew
    /\ sse = SseNew
    /\ sseNet = SseNetNew
    /\ sseLast = SseLastNew
    /\ http = HttpNew
    /\ httpSrv \in (IF kind = "http" THEN HttpServers
                    ELSE {[list |-> AllFailList, call |-> AllFailCall]})
    /\ httpLast = HttpLastNew
    /\ InitSession
    /\ InitCalls
    /\ appSrv = [e \in AppEndpoints |-> SseNoServer]
    /\ appLlm = NoLlm

Next ==
    \/ WsConnectCall
    \/ WsCloseCall
    \/ WsDiscoverCall
    \/ SseConnectCall
    \/ SseCloseCall
    \/ SseDelCall
    \/ SseDiscoverCall
    \/ SseCallToolCall
    \/ HttpConnectCall
    \/ HttpCloseCall
    \/ HttpDiscoverCall
    \/ HttpCallToolCall
    \/ WsReadFileCall
    \/ SseReadFileCall
    \/ HttpReadFileCall

Spec == Init /\ [][Next]_vars

\* The UI session on its own: the servers and the completion service answer the
\* same way throughout a behaviour
InitApp ==
    /\ kind = "app"
    /\ readCall = NoRead
    /\ ws = WsNew /\ wsNet = WsNetNew /\ wsSrv = Refusing /\ wsLast = WsLastNew
    /\ sse = SseNew /\ sseNet = SseNetNew /\ sseLast = SseLastNew
    /\ http = HttpNew
    /\ httpSrv = [list |-> AllFailList, call |-> AllFailCall]
    /\ httpLast = HttpLastNew
    /\ InitSession
    /\ InitCalls
    /\ appSrv \in {[e \in AppEndpoints |-> IF e = "e1" THEN s ELSE o] :
                      s \in AppServers, o \in OtherServers}
    /\ appLlm \in [plan : LlmPlans, compose : AppComposeAnswers]

NextApp == ConnectClicked \/ RunAgentClicked

SpecApp == InitApp /\ [][NextApp]_vars

\* The history on its own: lines 426-436 applied by one completed run after
\* another; run.n counts the completed runs and stamps their entries
Requests == {"summarize", "translate"}

HistoryEntry(timestamp, request) == [timestamp |-> timestamp, request |-> request]

RunCompleted ==
    /\ kind = "history"
    /\ run.n < MaxInserts
    /\ \E user_request \in Requests :
          agent_history' = InsertEntry(agent_history, HistoryEntry(run.n + 1, user_request))
    /\ run' = [run EXCEPT !.n = @ + 1]
    /\ UNCHANGED <<kind, readCall, wsVars, sseVars, httpVars, mcp_client, mcp_client_key,
                   mcp_connected, mcp_server_url, available_tools, generated_content,
                   appNet, appSrv, appLlm, planCall, argsCall, composeCall, normCall>>

InitHistory ==
    /\ kind = "history"
    /\ readCall = NoRead
    /\ ws = WsNew /\ wsNet = WsNetNew /\ wsSrv = Refusing /\ wsLast = WsLastNew
    /\ sse = SseNew /\ sseNet = SseNetNew /\ sseLast = SseLastNew
    /\ http = HttpNew
    /\ httpSrv = [list |-> AllFailList, call |-> AllFailCall]
    /\ httpLast = HttpLastNew
    /\ InitSession
    /\ InitCalls
    /\ appSrv = [e \in AppEndpoints |-> SseNoServer]
    /\ appLlm = NoLlm

NextHistory == RunCompleted

SpecHistory == InitHistory /\ [][NextHistory]_vars

InitOthers ==
    /\ readCall = NoRead
    /\ ws = WsNew /\ wsNet = WsNetNew /\ wsSrv = Refusing /\ wsLast = WsLastNew
    /\ sse = SseNew /\ sseNet = SseNetNew /\ sseLast = SseLastNew
    /\ http = HttpNew
    /\ httpSrv = [list |-> AllFailList, call |-> AllFailCall]
    /\ httpLast = HttpLastNew
    /\ InitSession
    /\ appSrv = [e \in AppEndpoints |-> SseNoServer]
    /\ appLlm = NoLlm

\* The planner on its own: one call of plan_tool_with_llm for every catalog,
\* completion and required tool name
PlannerTexts ==
    PlanTexts \cup
    { Text(0, 40, TRUE, [tool_name |-> JName("ghost"),
                         arguments |-> JArgs([NoArgs EXCEPT !["path"] = "a.txt"]),
                         reasoning |-> LlmReasoning]),
      Text(0, 40, TRUE, [tool_name |-> JName("ghost"), arguments |-> JAbsent,
                         reasoning |-> JAbsent]),
      Text(0, 40, TRUE, [tool_name |-> JName("read_file_mcp"), arguments |-> JNull,
                         reasoning |-> JNull]),
      Text(0, 40, TRUE, [tool_name |-> JName(""), arguments |-> JArgs(NoArgs),
                         reasoning |-> LlmReasoning]),
      Text(0, 40, TRUE, [tool_name |-> JAbsent, arguments |-> JAbsent,
                         reasoning |-> LlmReasoning]) }

PlannerLlms ==
    {[fail |-> TRUE, text |-> Text(-1, -1, FALSE, NoPlanData)]}
    \cup {[fail |-> FALSE, text |-> t] : t \in PlannerTexts}

RequiredNames == {NoName, "read_file_mcp", "tool_x", "other_tool"}

InitPlanner ==
    /\ kind = "planner"
    /\ InitOthers
    /\ planCall \in [op : {"none"}, tools : ToolLists, required_tool_name : RequiredNames,
                      llm : PlannerLlms, plan : {NoPlan}]
    /\ argsCall = ArgsCallNew
    /\ composeCall = ComposeCallNew
    /\ normCall = NormCallNew

PlanToolCalled ==
    /\ kind = "planner"
    /\ planCall.op = "none"
    /\ planCall' = [planCall EXCEPT
                       !.op = "plan",
                       !.plan = plan_tool_with_llm(planCall.tools, planCall.llm,
                                                   planCall.required_tool_name)]
    /\ UNCHANGED <<kind, readCall, wsVars, sseVars, httpVars, mcp_client, mcp_client_key,
                   mcp_connected, mcp_server_url, available_tools, agent_history,
                   generated_content, appNet, appSrv, appLlm, argsCall, composeCall,
                   normCall, run>>

NextPlanner == PlanToolCalled

SpecPlanner == InitPlanner /\ [][NextPlanner]_vars

\* The argument resolver on its own: one call of prepare_tool_arguments for
\* every input schema and every argument mapping of the planner
DefaultValues == {"ABSENT", "NULL", "", "data.txt"}
ArgValues == {"ABSENT", "NULL", "", "a.txt"}
RequiredLists == {<<>>, <<"path">>, <<"format">>, <<"path", "format">>, <<"format", "path">>}

\* a default is an entry of a declared parameter
Schemas ==
    {sc \in [properties : SUBSET Params, default : [Params -> DefaultValues],
             required : RequiredLists] :
        \A q \in Params \ sc.properties : sc.default[q] = "ABSENT"}

InitResolver ==
    /\ kind = "resolver"
    /\ InitOthers
    /\ planCall = PlanCallNew
    /\ argsCall \in [op : {"none"}, schema : Schemas, planned_args : [Params -> ArgValues],
                      result : {ArgsCallNew.result}]
    /\ composeCall = ComposeCallNew
    /\ normCall = NormCallNew

PrepareArgumentsCalled ==
    /\ kind = "resolver"
    /\ argsCall.op = "none"
    /\ argsCall' = [argsCall EXCEPT
                       !.op = "prepare",
                       !.result = PrepareWithSchema(argsCall.schema, argsCall.planned_args)]
    /\ UNCHANGED <<kind, readCall, wsVars, sseVars, httpVars, mcp_client, mcp_client_key,
                   mcp_connected, mcp_server_url, available_tools, agent_history,
                   generated_content, appNet, appSrv, appLlm, planCall, composeCall,
                   normCall, run>>

NextResolver == PrepareArgumentsCalled

SpecResolver == InitResolver /\ [][NextResolver]_vars

\* The composer on its own: one call of compose_final_response for every
\* request, tool name, tool output, reasoning and answer of the completion
\* service
ToolOutputs == {<<>>, <<"h", "i">>, <<" ", "x", "\n">>}

InitComposer ==
    /\ kind = "composer"
    /\ InitOthers
    /\ planCall = PlanCallNew
    /\ argsCall = ArgsCallNew
    /\ normCall = NormCallNew
    /\ composeCall \in [op : {"none"}, user_request : {"", "summarize"},
                         tool_name : {NoName, "tool_x"}, tool_output : ToolOutputs,
                         reasoning : {"", "why"}, llm : ComposeAnswers,
                         result : {ComposeCallNew.result}]

ComposeCalled ==
    /\ kind = "composer"
    /\ composeCall.op = "none"
    /\ composeCall' = [composeCall EXCEPT
                          !.op = "compose",
                          !.result = compose_final_response(composeCall.user_request,
                                                            composeCall.tool_name,
                                                            composeCall.tool_output,
                                                            composeCall.llm)]
    /\ UNCHANGED <<kind, readCall, wsVars, sseVars, httpVars, mcp_client, mcp_client_key,
                   mcp_connected, mcp_server_url, available_tools, agent_history,
                   generated_content, appNet, appSrv, appLlm, planCall, argsCall,
                   normCall, run>>

NextComposer == ComposeCalled

SpecComposer == InitComposer /\ [][NextComposer]_vars

\* The normalizer on its own: one call of normalize_tool_result for every
\* value of the model.  Items of a content list: text fragments (their text a
\* string, empty, missing, null or a number), a fragment of another type, and
\* an item that is not an object.
ItemPool ==
    { JFrag(TextType, JStr(<<" ", "h", "i", " ">>)),
      JFrag(TextType, JStr(<<"b">>)),
      JFrag(TextType, JStr(<<" ">>)),
      JFrag(TextType, JStr(<<>>)),
      JFrag(TextType, JAbsent),
      JFrag(TextType, JNull),
      JFrag(TextType, JNum(5)),
      JFrag(JStr(<<"i", "m", "g">>), JStr(<<"z">>)),
      JStr(<<"s">>) }

Contents ==
    {JAbsent, JNull, JStr(<<"r", "a", "w">>), JStr(<<>>), JNum(3)}
    \cup {JList(items) : items \in BoundedSeq(ItemPool, MaxItems)}

Messages == {JAbsent, JNull, JStr(<<"x">>), JNum(0)}

NormInputs ==
    {JDict(content, message) : content \in Contents, message \in Messages}
    \cup {JNull, JNum(7), JNum(0), JStr(<<"p">>), JStr(<<>>),
          JList(<<>>), JList(<<JNum(1), JStr(<<"a">>), JNull>>)}
    \cup Payloads

InitNormalizer ==
    /\ kind = "normalizer"
    /\ InitOthers
    /\ planCall = PlanCallNew
    /\ argsCall = ArgsCallNew
    /\ composeCall = ComposeCallNew
    /\ normCall \in [op : {"none"}, result : NormInputs, normalized : {NormCallNew.normalized}]

NormalizeCalled ==
    /\ kind = "normalizer"
    /\ normCall.op = "none"
    /\ normCall' = [normCall EXCEPT !.op = "normalize",
                                    !.normalized = normalize_tool_result(normCall.result)]
    /\ UNCHANGED <<kind, readCall, wsVars, sseVars, httpVars, mcp_client, mcp_client_key,
                   mcp_connected, mcp_server_url, available_tools, agent_history,
                   generated_content, appNet, appSrv, appLlm, planCall, argsCall,
                   composeCall, run>>

NextNormalizer == NormalizeCalled

SpecNormalizer == InitNormalizer /\ [][NextNormalizer]_vars

(***************************************************************************)
(* Claims about the Socket-RPC client                                      *)
(***************************************************************************)
Names(tools) == [i \in 1..Len(tools) |-> tools[i].name]

\* the requests the last call on ws sent, in order
WsSentByLast == SubSeq(wsNet.sent, wsLast.nsent + 1, Len(wsNet.sent))

\* the server of the last call accepted the socket and answers every request
\* with a non-error response carrying the request's id
WsCooperative == wsSrv.accept /\ wsSrv.fin = "ok"

\* C1: connect() on a Disconnected client whose socket opens and whose server
\* answers initialize with a non-error response of the same id returns with
\* connected = TRUE and that response's serverInfo and capabilities cached.
C1_ConnectCompletesHandshake ==
    (wsLast.op = "connect" /\ ~wsLast.was /\ WsCooperative)
        => /\ wsLast.out = "ok"
           /\ ws.connected
           /\ ws.server_info = wsSrv.init.serverInfo
           /\ ws.capabilities = wsSrv.init.capabilities

\* C2: a request returns only on the inbound message carrying its id; the
\* notifications and foreign-id messages that arrive before it, in any number
\* and order, are skipped without raising, and when the matching message
\* arrives the request returns that message's result.
C2_RequestReturnsMatchingResult ==
    (wsLast.op = "connect" /\ ~wsLast.was /\ wsSrv.accept)
        => /\ wsLast.out = "ok" => wsSrv.fin = "ok"
           /\ wsSrv.fin = "ok" =>
                 /\ wsLast.out = "ok"
                 /\ wsLast.val = wsSrv.init
                 /\ Len(WsSentByLast) = 1

\* C3: discoverTools() sends one tools/list request per page, each carrying the
\* nextCursor of the previous response, and returns the pages concatenated in
\* request order.
C3_DiscoveryFollowsCursor ==
    (wsLast.op = "discover_tools" /\ WsCooperative)
        => /\ wsLast.out = "ok"
           /\ Names(wsLast.val.tools) = Names(SeqConcat(wsSrv.pages))
           /\ LET lists == SelectSeq(WsSentByLast, LAMBDA m : m.method = "tools/list")
              IN /\ Len(lists) = Len(wsSrv.pages)
                 /\ \A i \in 1..Len(lists) : lists[i].cursor = IF i = 1 THEN 0 ELSE i

C5_ConnectIdempotent ==
    [][ /\ (wsLast'.op = "connect" /\ ws.connected) => UNCHANGED <<ws, wsNet>>
        /\ (sseLast'.op = "connect" /\ sse.connected) => UNCHANGED <<sse, sseNet>>
        /\ (httpLast'.op = "connect" /\ http.connected) => UNCHANGED http ]_vars

\* connect() was called on a connected streaming client
C5_Witness == sseLast.op = "connect" /\ sseLast.was /\ sseLast.out = "ok"

Endpoints(probes) == [i \in 1..Len(probes) |-> probes[i].endpoint]

Least(S) == CHOOSE k \in S : \A m \in S : k <= m

NamedTools(tools) == SelectSeq(tools, LAMBDA t : t.name # "")

\* C7: discoverTools() of the HTTP shim probes POST mcp/tools/list, POST
\* tools/list, GET mcp/tools/list, GET tools/list in that order; the first probe
\* that yields a non-empty list of named tools ends the discovery and gives the
\* catalog (one descriptor per name), probes that fail or yield no named tool
\* are passed over without raising, and with no such probe the catalog is empty.
C7_DiscoveryProbeOrder ==
    httpLast.op = "discover_tools" =>
        LET order == << <<"POST", "mcp/tools/list">>, <<"POST", "tools/list">>,
                        <<"GET", "mcp/tools/list">>, <<"GET", "tools/list">> >>
            sent  == [i \in 1..Len(httpLast.probes) |->
                         <<httpLast.probes[i].method, httpLast.probes[i].endpoint>>]
            yields == {i \in 1..4 : httpSrv.list[i].ok
                                     /\ NamedTools(httpSrv.list[i].tools) # <<>>}
        IN /\ httpLast.out = "ok"
           /\ http.tools_cache = httpLast.tools
           /\ IF yields = {}
              THEN sent = order /\ httpLast.tools = <<>>
              ELSE LET named == NamedTools(httpSrv.list[Least(yields)].tools)
                   IN /\ sent = SubSeq(order, 1, Least(yields))
                      /\ {t.name : t \in Range(httpLast.tools)} = {t.name : t \in Range(named)}
                      /\ \A t \in Range(httpLast.tools) :
                            \E u \in Range(named) : t = SetDefaultSchema(u)
                      /\ Cardinality({t.name : t \in Range(named)}) = Len(named)
                            => httpLast.tools = SeqMap(SetDefaultSchema, named)

\* a discovery won by the third probe after a failed probe and a probe that
\* answered without any named tool
C7_Witness ==
    /\ httpLast.op = "discover_tools"
    /\ Len(httpLast.probes) = 3 /\ httpLast.tools # <<>>
    /\ \E i \in 1..2 : ~httpSrv.list[i].ok
    /\ \E i \in 1..2 : httpSrv.list[i].ok
    /\ NamedTools(httpSrv.list[4].tools) # <<>>

\* C8: discoverTools() of each of the three clients never propagates a failure:
\* when the discovery fails it returns the empty sequence.
C8_DiscoveryDegradesToEmpty ==
    /\ wsLast.op = "discover_tools" =>
          (wsLast.out = "ok" /\ (~WsCooperative => wsLast.val.tools = <<>>))
    /\ sseLast.op = "discover_tools" =>
          (sseLast.out = "ok"
           /\ (~(sseLast.srv.up /\ sseLast.srv.listOk) => sseLast.tools = <<>>))
    /\ httpLast.op = "discover_tools" => httpLast.out = "ok"

\* Index of the catalog entry the run resolves arguments against
TargetTool(tools, tool_name) ==
    tools[FirstIndex({i \in 1..Len(tools) : tools[i].name = tool_name})]

\* C9: every agent run that got a client, whatever fails in planning, argument
\* resolution, invocation or composition, ends in Done with exactly one final
\* text stored and exactly one entry put at the head of the history.
C9_RunEndsDoneWithOneEntry ==
    (run.op = "run" /\ run.out # "failed") =>
        /\ run.out = "done"
        /\ run.phases[Len(run.phases)] = "Done"
        /\ Len(agent_history) = run.hist_before + 1
        /\ agent_history[1].final_response = run.final_response
        /\ generated_content = run.final_response
        /\ run.final_response # <<>>

\* C10: in an agent run the client's call_tool is invoked at most once, and only
\* when the plan selected a tool that is named in the catalog of the run and
\* whose arguments resolved; when no tool is selected the run goes from
\* planning straight to composing, with empty tool output.
C10_CallOnlyResolvedCatalogTool ==
    run.op = "run" =>
        /\ run.calls <= 1
        /\ run.calls = 1 =>
              /\ run.selected # NoName
              /\ \E i \in 1..Len(run.tools) : run.tools[i].name = run.selected
              /\ prepare_tool_arguments(TargetTool(run.tools, run.selected),
                                        run.arguments).out = "ok"
              /\ run.phases = <<"Connecting", "Discovering", "Planning",
                                "ResolvingArguments", "Invoking", "Composing", "Done">>
        /\ (run.out = "done" /\ run.selected = NoName) =>
              /\ run.calls = 0
              /\ run.tool_output_text = <<>>
              /\ run.phases = <<"Connecting", "Discovering", "Planning", "Composing", "Done">>

\* a run called the selected tool and got its text, and an earlier run of the
\* same session is in the history
C10_Witness ==
    /\ run.op = "run"
    /\ run.out = "done"
    /\ run.calls = 1
    /\ run.selected = "tool_x"
    /\ run.tool_output_text # <<>>
    /\ Len(agent_history) = 2

\* The run selected a catalog tool whose arguments do not resolve
ResolutionFailed ==
    /\ run.selected # NoName
    /\ prepare_tool_arguments(TargetTool(run.tools, run.selected), run.arguments).out = "raise"

\* The run called the tool and the server of its client failed the call or
\* answered with a result that cannot be normalized
InvocationFailed ==
    /\ run.calls = 1
    /\ \/ ~appSrv[run.endpoint].callOk
       \/ normalize_tool_result(appSrv[run.endpoint].data).out # "ok"

C11_InvocationWitness ==
    /\ run.op = "run"
    /\ InvocationFailed
    /\ run.out = "done"

\* A step that is a press of "Run Agent"
RunStep == run'.n = run.n + 1

\* C12: a run that gets no client (the connection attempt failed and the slot
\* is left empty, or no endpoint was given) ends there: it is reported as
\* failed, nothing is planned, invoked or composed, no text or history entry is
\* written, and no session is opened by it.
C12_ConnectionFailureIsTerminal ==
    [][RunStep =>
         /\ ~mcp_client'.some => run'.out = "failed"
         /\ run'.out = "failed" =>
               /\ run'.phases = <<"Connecting", "Failed">>
               /\ run'.calls = 0
               /\ run'.selected = NoName
               /\ run'.final_response = <<>>
               /\ agent_history' = agent_history
               /\ generated_content' = generated_content
               /\ available_tools' = available_tools
               /\ appNet'.opened = appNet.opened]_vars

\* a run switched to an endpoint whose server is down: the session of the
\* previous endpoint is closed and the run stopped at the connection
C12_Witness ==
    /\ run.op = "run"
    /\ run.out = "failed"
    /\ ~mcp_client.some
    /\ appNet.opened = 1
    /\ appNet.live = 0
    /\ agent_history = <<>>

\* C13: after n completed runs the history holds exactly the min(n, 10) most
\* recent entries, newest first (after 12 runs: runs 12, 11, ..., 3).
C13_HistoryNewestFirstAtMostTen ==
    kind = "history" =>
        /\ Len(agent_history) = (IF run.n < 10 THEN run.n ELSE 10)
        /\ \A i \in 1..Len(agent_history) : agent_history[i].timestamp = run.n - i + 1

\* twelve runs have completed: the head is the 12th, the last kept is the 3rd
C13_Witness ==
    /\ kind = "history"
    /\ run.n = 12
    /\ Len(agent_history) = 10
    /\ agent_history[1].timestamp = 12
    /\ agent_history[10].timestamp = 3

PlanParsed ==
    /\ ~planCall.llm.fail
    /\ ~planCall.llm.text.empty
    /\ planCall.llm.text.start >= 0
    /\ planCall.llm.text.end >= planCall.llm.text.start
    /\ planCall.llm.text.parses

PlanProposedName ==
    IF PlanParsed /\ planCall.llm.text.obj.tool_name.t = "name"
    THEN planCall.llm.text.obj.tool_name.name
    ELSE NoName

PlanCatalogNames == {planCall.tools[i].name : i \in 1..Len(planCall.tools)} \ {NoName}

PlanHasNote(what, a) ==
    /\ planCall.plan.reasoning.t = "str"
    /\ \E i \in 1..Len(planCall.plan.reasoning.parts) :
          /\ planCall.plan.reasoning.parts[i].note = what
          /\ planCall.plan.reasoning.parts[i].a = a

\* C15: for every completion and every catalog the planner returns a plan whose
\* tool_name is None or a name of the catalog; a proposed name that is not in
\* the catalog is dropped and the reasoning gets a note about it.
C15_PlanToolIsInCatalog ==
    planCall.op = "plan" =>
        /\ planCall.plan.out = "ok"
        /\ planCall.plan.tool_name \in PlanCatalogNames \cup {NoName}
        /\ (PlanProposedName # NoName /\ PlanProposedName \notin PlanCatalogNames) =>
              /\ planCall.plan.tool_name # PlanProposedName
              /\ PlanHasNote("tool not available", PlanProposedName)

\* C16: with a required tool name, the returned plan selects the required tool
\* when it is in the catalog, whatever was proposed, and the reasoning has an
\* override note when something else or nothing was proposed; when the
\* required tool is not in the catalog the plan selects no tool and the
\* reasoning has a note about it.
C16_RequiredToolOverrides ==
    (planCall.op = "plan" /\ planCall.required_tool_name # NoName) =>
        /\ planCall.plan.out = "ok"
        /\ planCall.required_tool_name \in PlanCatalogNames =>
              /\ planCall.plan.tool_name = planCall.required_tool_name
              /\ (PlanProposedName \in PlanCatalogNames \ {planCall.required_tool_name}) =>
                    PlanHasNote("overriding with required", PlanProposedName)
              /\ PlanProposedName \notin PlanCatalogNames =>
                    PlanHasNote("using required tool", planCall.required_tool_name)
        /\ planCall.required_tool_name \notin PlanCatalogNames =>
              /\ planCall.plan.tool_name = NoName
              /\ PlanHasNote("required tool not available", planCall.required_tool_name)

\* C17: when the completion text holds no parseable object the returned plan
\* is empty: no tool, no arguments, and a reasoning with a note of the failure.
C17_UnparseableGivesEmptyPlanWithNote ==
    (planCall.op = "plan" /\ ~planCall.llm.fail /\ ~PlanParsed) =>
        /\ planCall.plan.out = "ok"
        /\ planCall.plan.tool_name = NoName
        /\ planCall.plan.arguments = NoArgs
        /\ PlanHasNote("Planning failed", "")

\* C18: the planner returns a plan for every text of the completion service,
\* also for an object whose tool_name, arguments or reasoning is null or of
\* the wrong type; it never raises.
C18_PlannerNeverRaises ==
    planCall.op = "plan" => planCall.plan.out = "ok"

\* What the defaulting policy gives for one parameter of the resolver call
\* under inspection: the path rule first, then the rule of required parameters
ArgAfterPathRule(q) ==
    IF q = "path" /\ "path" \in argsCall.schema.properties
       /\ argsCall.planned_args["path"] = "ABSENT"
    THEN IF argsCall.schema.default["path"] \in {"data.txt"}
         THEN argsCall.schema.default["path"]
         ELSE "sample.txt"
    ELSE argsCall.planned_args[q]

ArgRequired(q) == \E i \in 1..Len(argsCall.schema.required) : argsCall.schema.required[i] = q

ArgExpected(q) ==
    IF /\ ArgRequired(q)
       /\ ArgAfterPathRule(q) \in {"ABSENT", "NULL", ""}
       /\ q \in argsCall.schema.properties
       /\ argsCall.schema.default[q] \in {"", "data.txt"}
    THEN argsCall.schema.default[q]
    ELSE ArgAfterPathRule(q)

\* C19: the resolver starts from the planner's arguments; a declared path that
\* is absent from them gets the schema's default or else "sample.txt"; every
\* required parameter that is then missing, None or empty gets its declared
\* default; every other argument is returned as the planner gave it.
C19_ResolverDefaults ==
    argsCall.op = "prepare" =>
        \A q \in Params : argsCall.result.args[q] = ArgExpected(q)

\* a declared path with a default of its own was absent and a required format
\* given as "" got its declared default
C19_Witness ==
    /\ argsCall.op = "prepare"
    /\ argsCall.planned_args = [path |-> "ABSENT", format |-> ""]
    /\ argsCall.schema.properties = {"path", "format"}
    /\ argsCall.schema.default = [path |-> "data.txt", format |-> "data.txt"]
    /\ argsCall.schema.required = <<"format">>
    /\ argsCall.result.out = "ok"
    /\ argsCall.result.args = [path |-> "data.txt", format |-> "data.txt"]

\* C20: the resolver raises exactly when, after defaulting, a required
\* parameter is still missing, None or empty; the error names all of these
\* parameters and no other; a call that returns has every required parameter
\* present and non-empty.
C20_ResolverFailsOnMissing ==
    argsCall.op = "prepare" =>
        LET unfilled == {q \in Params : ArgRequired(q) /\ ArgExpected(q) \in {"ABSENT", "NULL", ""}}
            named == {argsCall.result.err[i] : i \in 2..Len(argsCall.result.err)}
        IN /\ (argsCall.result.out = "raise") <=> (unfilled # {})
           /\ argsCall.result.out \in {"ok", "raise"}
           /\ argsCall.result.out = "raise" =>
                 /\ argsCall.result.err[1] = "Missing required arguments"
                 /\ named = unfilled
                 /\ Len(argsCall.result.err) = 1 + Cardinality(unfilled)
           /\ argsCall.result.out = "ok" =>
                 \A q \in Params : ArgRequired(q) =>
                    argsCall.result.args[q] \notin {"ABSENT", "NULL", ""}

\* both required parameters stayed unfilled and both are named
C20_Witness ==
    /\ argsCall.op = "prepare"
    /\ argsCall.schema.required = <<"format", "path">>
    /\ argsCall.schema.properties = {"format"}
    /\ argsCall.planned_args = [path |-> "NULL", format |-> "ABSENT"]
    /\ argsCall.result.out = "raise"
    /\ argsCall.result.err = <<"Missing required arguments", "format", "path">>

\* the completion service failed the composing call, or its answer held no text
ComposeFailed == composeCall.llm.fail \/ composeCall.llm.text.t # "str"

\* C21: the composer returns a text for every input and never raises; when the
\* completion service fails the text is the raw request, then the raw tool
\* output when there is one, then a failure annotation, and so is not empty.
C21_ComposerFallsBack ==
    composeCall.op = "compose" =>
        /\ composeCall.result.out = "ok"
        /\ ComposeFailed =>
              LET text == composeCall.result.text
                  last == text[Len(text)]
              IN /\ text[1] = Part("request", composeCall.user_request, <<>>)
                 /\ last = Part("failure note", "", <<>>)
                 /\ IF composeCall.tool_output # <<>>
                    THEN /\ Len(text) = 4
                         /\ text[2].part = "tool output header"
                         /\ text[3] = Part("tool output", "", composeCall.tool_output)
                    ELSE Len(text) = 2

\* the completion service failed after a tool had given output
C21_Witness ==
    /\ composeCall.op = "compose"
    /\ composeCall.llm.fail
    /\ composeCall.tool_name = "tool_x"
    /\ composeCall.tool_output = <<"h", "i">>
    /\ Len(composeCall.result.text) = 4

\* The run called the tool and the server of its client answered with a result
\* whose normalized content is not empty
ToolGaveOutput ==
    /\ run.op = "run"
    /\ run.calls = 1
    /\ appSrv[run.endpoint].callOk
    /\ normalize_tool_result(appSrv[run.endpoint].data).out = "ok"
    /\ normalize_tool_result(appSrv[run.endpoint].data).content # <<>>

ToolContent == normalize_tool_result(appSrv[run.endpoint].data).content

\* C22: whenever the tool gave non-empty output the run completes, the entry at
\* the head of the history has that output as its tool_result content, and the
\* final text stored holds the output verbatim, after the leading text (the
\* summary, or the request when the completion service failed) and a
\* delimiter naming the tool.
C22_FinalTextHoldsToolOutput ==
    ToolGaveOutput =>
        /\ run.out = "done"
        /\ agent_history[1].tool_result.some
        /\ agent_history[1].tool_result.content = ToolContent
        /\ agent_history[1].final_response = run.final_response
        /\ generated_content = run.final_response
        /\ LET text == run.final_response
           IN /\ Len(text) >= 3
              /\ text[1].part \in {"summary", "request"}
              /\ text[2].part \in {"file content delimiter", "tool output header"}
              /\ text[2].name = run.selected
              /\ text[3] = Part("tool output", "", ToolContent)
              /\ (text[1].part = "summary") <=> ~appLlm.compose.fail

\* a run got "hi" from tool_x and the completion service summarized it
C22_Witness ==
    /\ ToolGaveOutput
    /\ ToolContent = <<"h", "i">>
    /\ run.selected = "tool_x"
    /\ ~appLlm.compose.fail
    /\ run.final_response[3].text = <<"h", "i">>

\* the same with the completion service failing the composing call
C22_FallbackWitness ==
    /\ ToolGaveOutput
    /\ appLlm.compose.fail
    /\ run.final_response[3].text = <<"h", "i">>

\* C23: for every input (absent, object, sequence, scalar) the normalizer
\* returns; the content it returns is a string and the raw field is the input.
C23_NormalizerTotal ==
    normCall.op = "normalize" =>
        /\ normCall.normalized.out = "ok"
        /\ normCall.normalized.content \in Seq({normCall.normalized.content[i] :
                                                  i \in DOMAIN normCall.normalized.content})
        /\ normCall.normalized.raw = normCall.result

\* The rule of the normalizer an input falls under, the first that matches
TextTagged(content) ==
    SelectSeq(content.items, LAMBDA item : item.t = "dict" /\ item.type = TextType)

NormRule(raw) ==
    CASE raw.t = "null" -> "absent"
      [] raw.t = "dict" ->
            (IF raw.content.t = "list" /\ TextTagged(raw.content) # <<>> THEN "fragments"
             ELSE IF raw.content.t = "str" THEN "content"
             ELSE IF raw.message.t # "absent" THEN "message"
             ELSE "object")
      [] raw.t = "list" -> "sequence"
      [] OTHER -> "scalar"

\* the texts of the text-tagged fragments that are non-empty strings, trimmed
TrimmedTexts(content) ==
    LET given == SelectSeq(TextTagged(content),
                           LAMBDA item : item.text.t = "str" /\ item.text.s # <<>>)
    IN [i \in 1..Len(given) |-> Strip(given[i].text.s)]

NormExpected(raw) ==
    CASE NormRule(raw) = "absent"    -> <<>>
      [] NormRule(raw) = "fragments" -> JoinLines(TrimmedTexts(raw.content))
      [] NormRule(raw) = "content"   -> raw.content.s
      [] NormRule(raw) = "message"   -> PyStr(raw.message)
      [] NormRule(raw) = "object"    -> <<"<json-indent-2>">>
      [] NormRule(raw) = "sequence"  -> JoinLines([i \in 1..Len(raw.items) |-> PyStr(raw.items[i])])
      [] OTHER                       -> PyStr(raw)

\* C24: the normalizer gives the content of the first rule that matches: ""
\* for an absent result; for an object the fragment texts (those of the
\* text-tagged items that are not empty, each trimmed, joined by newlines), else
\* its string content, else its message stringified, else the object
\* pretty-printed; for a sequence its elements stringified and joined by
\* newlines; for anything else its string form.
C24_NormalizerRuleOrder ==
    normCall.op = "normalize" =>
        /\ normCall.normalized.out = "ok"
        /\ normCall.normalized.content = NormExpected(normCall.result)

\* The candidate read_file should have picked from the names that were cached
ReadExpected ==
    IF "read_file" \in readCall.cached THEN "read_file"
    ELSE IF "readfile" \in readCall.cached THEN "readfile"
    ELSE IF "read_file_mcp" \in readCall.cached THEN "read_file_mcp"
    ELSE NoCandidate

\* the requests made on the network by the last call of the client driven
ReadTraffic ==
    CASE kind = "ws"   -> Len(WsSentByLast)
      [] kind = "http" -> Len(httpLast.probes)
      [] OTHER         -> IF sse.connected /\ ~sseLast.was THEN 1 ELSE 0

\* C25: read_file of each client looks up read_file, readfile, read_file_mcp in
\* that order in the cached catalog and calls call_tool once, with the first
\* of them that is cached; when none is cached it calls nothing, does not
\* raise, and returns a string that says so.
C25_ReadFilePicksFirstCandidate ==
    readCall.op = "read_file" =>
        /\ readCall.candidate = ReadExpected
        /\ readCall.calls = (IF ReadExpected = NoCandidate THEN 0 ELSE 1)
        /\ kind = "http" => httpLast.arg = ReadExpected
        /\ (kind = "http" /\ httpLast.probes # <<>>) =>
              \A i \in 1..Len(httpLast.probes) : httpLast.probes[i].name \in {"", ReadExpected}
        /\ ReadExpected = NoCandidate =>
              /\ readCall.out = "ok"
              /\ readCall.content \in {<<"Error: no read_file tool registered on">>,
                                       <<"No read_file tool available on">>}
              /\ ReadTraffic = 0

\* the cache held read_file_mcp and readfile, in that order, and read_file
\* called readfile and returned its content
C25_Witness ==
    /\ readCall.op = "read_file"
    /\ readCall.cached = {"read_file_mcp", "readfile"}
    /\ readCall.candidate = "readfile"
    /\ readCall.out = "ok"
    /\ readCall.content # <<>>

\* no candidate was cached among the tools discovered
C25_NoneWitness ==
    /\ readCall.op = "read_file"
    /\ readCall.cached = {"tool_x"}
    /\ readCall.calls = 0

\* C26: after close() returns on a connected streaming client the session
\* scope has been left, and the event loop of the client and its thread have
\* been stopped.
C26_CloseStopsBackgroundLoop ==
    (sseLast.op = "close" /\ sseLast.was) =>
        /\ sseLast.out = "ok"
        /\ ~sse.connected
        /\ ~sse.client_ctx
        /\ ~sse.client
        /\ sseNet.live = 0
        /\ ~sse.loop_running

\* no two descriptors of a catalog have the same name
UniqueNames(tools) ==
    \A i, j \in 1..Len(tools) : tools[i].name = tools[j].name => i = j

\* C27: the catalog discover_tools returns, on each of the three clients and
\* whatever the server lists, has no two descriptors with the same name.
C27_CatalogNamesUnique ==
    /\ (wsLast.op = "discover_tools" /\ wsLast.out = "ok") => UniqueNames(wsLast.val.tools)
    /\ (sseLast.op = "discover_tools" /\ sseLast.out = "ok") => UniqueNames(sseLast.tools)
    /\ (httpLast.op = "discover_tools" /\ httpLast.out = "ok") => UniqueNames(httpLast.tools)

C29_ErrorFieldRaises ==
    (wsLast.op = "connect" /\ ~wsLast.was /\ wsSrv.accept /\ wsSrv.fin # "none") =>
        IF wsSrv.fin = "err"
        THEN wsLast.out = "raise" /\ wsLast.err = "rpc-error"
        ELSE wsLast.out = "ok" /\ wsLast.val = ServerResult(wsSrv, WsSentByLast[1])

\* A call on the Socket-RPC client that makes a request while the client is
\* not connected: connect(), or a method that starts with it, once the socket
\* has opened
RequestWhileDisconnected ==
    /\ wsLast'.op \in {"connect", "discover_tools", "read_file"}
    /\ wsLast'.op = "read_file" => readCall'.calls = 1
    /\ ~ws.connected
    /\ wsSrv.accept
    /\ wsNet'.opened = wsNet.opened + 1

\* C30: a request made while the client is not connected raises the "not
\* connected" failure, which no other failure of the client looks like, sends
\* nothing on the socket and leaves the request-id counter as it was.
C30_DisconnectedRequestHasNoEffect ==
    [][ /\ RequestWhileDisconnected =>
              /\ wsLast'.out = "raise"
              /\ wsLast'.err = "not connected"
        /\ wsLast'.err = "not connected" =>
              /\ wsLast'.out = "raise"
              /\ wsNet'.sent = wsNet.sent
              /\ wsNet'.inbox = wsNet.inbox
              /\ ws'.request_id = ws.request_id ]_vars

\* a request was refused on a socket that had just opened
C30_Witness ==
    /\ wsLast.op = "connect"
    /\ wsLast.err = "not connected"
    /\ wsNet.opened = 1
    /\ wsNet.sent = <<>>
    /\ ws.request_id = 0

\* C31: a connect() of the Socket-RPC client that fails after its socket has
\* opened leaves the client disconnected with no socket, so that the sockets
\* the client has opened and not closed are never more than one.
C31_FailedConnectHoldsNoSocket ==
    /\ (wsLast.op = "connect" /\ wsLast.out = "raise") =>
          /\ ~ws.connected
          /\ ws.sock = "none"
    /\ wsNet.open <= 1

\* The catalog a discovery at an endpoint returns: what its server lists, or
\* nothing when the server is down or fails the listing
CatalogOf(endpoint) ==
    IF appSrv[endpoint].up /\ appSrv[endpoint].listOk
    THEN SeqMap(SetDefaultSchema, SelectSeq(appSrv[endpoint].tools, LAMBDA t : t.name # ""))
    ELSE <<>>

\* C32: the catalog a run plans against and validates the selected tool
\* against was discovered from the endpoint of the client the run invokes
\* through: after the slot is switched to another endpoint no run uses the
\* tools discovered from the previous one.
C32_RunUsesCatalogOfItsEndpoint ==
    (run.op = "run" /\ run.out # "failed") =>
        run.tools \in {<<>>, CatalogOf(run.endpoint)}

\* C33: in every state of the UI session, mcp_connected implies that the
\* client slot holds a client, and whenever the slot holds a client the stored
\* key is ("SSE", the endpoint that client was created for).
C33_ConnectedImpliesClientAndKey ==
    kind = "app" =>
        /\ mcp_connected => mcp_client.some
        /\ mcp_client.some => mcp_client_key = <<"SSE", mcp_client.endpoint>>

\* the slot was switched to the second endpoint and a discovery there succeeded
C33_Witness ==
    /\ kind = "app"
    /\ mcp_connected
    /\ mcp_client.some
    /\ mcp_client_key = <<"SSE", "e2">>
    /\ appNet.opened = 2

\* a switch to an endpoint whose server is down emptied the slot
C33_EmptiedWitness ==
    /\ kind = "app"
    /\ ~mcp_connected
    /\ ~mcp_client.some
    /\ mcp_client_key = NoKey
    /\ appNet.opened = 1
    /\ appNet.live = 0

\* The tool the selection rule of the run picks from a non-empty catalog: the
\* first name of the candidate list the catalog has, else the first tool whose
\* name contains both "read" and "file", else the first tool
PickExpected(tools) ==
    LET names == {tools[i].name : i \in 1..Len(tools)}
        cands == {c \in 1..Len(READ_TOOL_CANDIDATES) : READ_TOOL_CANDIDATES[c] \in names}
        fuzzy == {i \in 1..Len(tools) : HasReadAndFile(tools[i].name)}
    IN IF cands # {} THEN READ_TOOL_CANDIDATES[Least(cands)]
       ELSE IF fuzzy # {} THEN tools[Least(fuzzy)].name
       ELSE tools[1].name

\* C34: in a run with a non-empty catalog the plan selects the tool the
\* selection rule picks from the catalog, whatever the completion service
\* proposes, also when it proposes no tool.
C34_PlanSelectsReadTool ==
    (run.op = "run" /\ run.out # "failed" /\ run.tools # <<>>) =>
        /\ run.out = "done"
        /\ run.selected = PickExpected(run.tools)

\* C35: in every history entry tool_result and tool_error are never both set;
\* in the entry of a run, tool_result is set exactly when the tool was invoked
\* and the invocation succeeded, tool_error is set exactly when argument
\* resolution or the invocation failed, and both are null when no tool was
\* selected.
C35_ResultAndErrorExclusive ==
    /\ \A i \in 1..Len(agent_history) :
          ~(agent_history[i].tool_result.some /\ agent_history[i].tool_error # NoToolError)
    /\ (run.op = "run" /\ run.out = "done") =>
          /\ run.calls = 1 <=> (run.selected # NoName /\ ~ResolutionFailed)
          /\ agent_history[1].tool_result.some <=> (run.calls = 1 /\ ~InvocationFailed)
          /\ agent_history[1].tool_error # NoToolError <=> (ResolutionFailed \/ InvocationFailed)
          /\ run.selected = NoName =>
                /\ ~agent_history[1].tool_result.some
                /\ agent_history[1].tool_error = NoToolError

\* a run invoked its tool and the entry holds the result and no error
C35_Witness ==
    /\ run.op = "run"
    /\ run.out = "done"
    /\ run.calls = 1
    /\ agent_history[1].tool_result.some
    /\ agent_history[1].tool_error = NoToolError

\* a run whose call failed: the entry holds the error and no result
C35_ErrorWitness ==
    /\ run.op = "run"
    /\ run.out = "done"
    /\ run.calls = 1
    /\ ~agent_history[1].tool_result.some
    /\ agent_history[1].tool_error = <<"call_tool failed">>

\* a run that selected no tool: the entry holds neither
C35_NoToolWitness ==
    /\ run.op = "run"
    /\ run.out = "done"
    /\ run.selected = NoName
    /\ ~agent_history[1].tool_result.some
    /\ agent_history[1].tool_error = NoToolError

====
